---------------------------- MODULE Spec2Model ----------------------------
(***************************************************************************)
(* Klikschaak: the server's game session (GameSession), the rules engine   *)
(* it calls (isSquareAttacked, getPieceMoves, wouldBeInCheck,              *)
(* getCombinedMoves, isInCheck, hasLegalMoves) and the socket handlers     *)
(* that drive it (game:create, game:join, game:move, game:resign,          *)
(* disconnect) together with the game clock's timeout.                     *)
(*                                                                         *)
(* Rows and columns are the source's: row 0 is rank 8, row 7 is rank 1,    *)
(* col 0 is file a.  A square is the sequence of the pieces on it          *)
(* (Square.pieces); sequences are 1-based here, the wire's unklikIndex     *)
(* stays 0-based.  A piece is its source string: "K", "q", "P3", "p0", ... *)
(***************************************************************************)
EXTENDS Integers, Sequences, FiniteSets, TLC

(***************************************************************************)
(* Pieces (server/src/game/types.ts, constants.ts)                         *)
(***************************************************************************)
WhitePawnIds == {"P0", "P1", "P2", "P3", "P4", "P5", "P6", "P7"}
BlackPawnIds == {"p0", "p1", "p2", "p3", "p4", "p5", "p6", "p7"}
WhitePieceTypes == {"K", "Q", "R", "B", "N", "P"}
BlackPieceTypes == {"k", "q", "r", "b", "n", "p"}
Pieces == WhitePieceTypes \cup BlackPieceTypes \cup WhitePawnIds \cup BlackPawnIds

\* "undefined" / null of an optional piece or move type (falsy in the source)
NoPiece == ""
NoType == ""

\* piece === piece.toUpperCase()
isWhitePiece(piece) == piece \in (WhitePieceTypes \cup WhitePawnIds)

\* piece.charAt(0).toLowerCase()
getPieceType(piece) ==
    CASE piece \in {"K", "k"} -> "k"
      [] piece \in {"Q", "q"} -> "q"
      [] piece \in {"R", "r"} -> "r"
      [] piece \in {"B", "b"} -> "b"
      [] piece \in {"N", "n"} -> "n"
      [] OTHER -> "p"

isPawn(piece) == getPieceType(piece) = "p"

KNIGHT_MOVES == << <<-2, -1>>, <<-2, 1>>, <<-1, -2>>, <<-1, 2>>,
                   <<1, -2>>, <<1, 2>>, <<2, -1>>, <<2, 1>> >>
KING_MOVES == << <<-1, -1>>, <<-1, 0>>, <<-1, 1>>, <<0, -1>>, <<0, 1>>,
                 <<1, -1>>, <<1, 0>>, <<1, 1>> >>
DIAGONAL_DIRS == << <<-1, -1>>, <<-1, 1>>, <<1, -1>>, <<1, 1>> >>
ORTHOGONAL_DIRS == << <<-1, 0>>, <<1, 0>>, <<0, -1>>, <<0, 1>> >>

Idx == 0..7
Abs(x) == IF x < 0 THEN -x ELSE x
OnBoard(r, c) == r >= 0 /\ r < 8 /\ c >= 0 /\ c < 8

\* pieces.includes(p) / pieces.some(...)
Includes(pieces, p) == \E i \in 1..Len(pieces) : pieces[i] = p
SomeType(pieces, t) == \E i \in 1..Len(pieces) : getPieceType(pieces[i]) = t
SomePawn(pieces) == \E i \in 1..Len(pieces) : isPawn(pieces[i])
\* pieces.filter((_, i) => i !== unklikIndex), unklikIndex 0-based
RemoveAt(pieces, unklikIndex) ==
    [j \in 1..(Len(pieces) - (IF unklikIndex >= 0 /\ unklikIndex < Len(pieces) THEN 1 ELSE 0))
        |-> IF j <= unklikIndex THEN pieces[j] ELSE pieces[j + 1]]
\* pieces.filter(p => !isPawn(p))
NonPawns(pieces) == SelectSeq(pieces, LAMBDA p : ~isPawn(p))
\* board[r][c].pieces = v
SetSq(board, r, c, v) == [board EXCEPT ![r][c] = v]

(***************************************************************************)
(* Attack oracle                                                           *)
(***************************************************************************)
\* the walk from (fromRow,fromCol) towards (toRow,toCol) meets no piece.
\* (For from = to the source's loop would walk off the board; an attacker
\* never stands on the square it is asked about.)
PathClear(board, fromRow, fromCol, toRow, toCol, dr, dc) ==
    LET n == IF Abs(toRow - fromRow) > Abs(toCol - fromCol)
             THEN Abs(toRow - fromRow) ELSE Abs(toCol - fromCol)
    IN  /\ n > 0
        /\ \A i \in 1..(n - 1) : Len(board[fromRow + i * dr][fromCol + i * dc]) = 0

canPieceAttack(board, fromRow, fromCol, piece, toRow, toCol) ==
    LET p == getPieceType(piece)
        isWhite == isWhitePiece(piece)
        diag == Abs(fromRow - toRow) = Abs(fromCol - toCol)
        orth == fromRow = toRow \/ fromCol = toCol
    IN  CASE p = "p" ->
               LET dir == IF isWhite THEN -1 ELSE 1
               IN  Abs(fromCol - toCol) = 1 /\ fromRow + dir = toRow
          [] p = "n" ->
               LET dr == Abs(fromRow - toRow)
                   dc == Abs(fromCol - toCol)
               IN  (dr = 2 /\ dc = 1) \/ (dr = 1 /\ dc = 2)
          [] p = "k" ->
               Abs(fromRow - toRow) <= 1 /\ Abs(fromCol - toCol) <= 1
          [] (p = "b" \/ p = "q") /\ diag ->
               PathClear(board, fromRow, fromCol, toRow, toCol,
                         IF toRow > fromRow THEN 1 ELSE -1,
                         IF toCol > fromCol THEN 1 ELSE -1)
          [] (p = "r" \/ p = "q") /\ orth ->
               PathClear(board, fromRow, fromCol, toRow, toCol,
                         IF fromRow = toRow THEN 0 ELSE (IF toRow > fromRow THEN 1 ELSE -1),
                         IF fromCol = toCol THEN 0 ELSE (IF toCol > fromCol THEN 1 ELSE -1))
          [] OTHER -> FALSE

\* byWhite is the colour of the side asking: squares of that colour are skipped
isSquareAttacked(board, row, col, byWhite) ==
    \E r \in Idx, c \in Idx :
        /\ Len(board[r][c]) > 0
        /\ isWhitePiece(board[r][c][1]) # byWhite
        /\ \E i \in 1..Len(board[r][c]) :
               canPieceAttack(board, r, c, board[r][c][i], row, col)

(***************************************************************************)
(* Pseudo-move generator.  A move is <<row, col, type>>; type is NoType    *)
(* for the source's two-element moves.  enPassantTarget is <<>> (null) or  *)
(* <<row, col>>.                                                           *)
(***************************************************************************)
RECURSIVE Ray(_, _, _, _, _, _)
\* for (let i = 1; i < 8; i++) { ... push; if occupied break }
Ray(board, row, col, dr, dc, i) ==
    LET newRow == row + dr * i
        newCol == col + dc * i
    IN  IF i >= 8 \/ ~OnBoard(newRow, newCol) THEN <<>>
        ELSE IF Len(board[newRow][newCol]) > 0 THEN << <<newRow, newCol, NoType>> >>
        ELSE << <<newRow, newCol, NoType>> >> \o Ray(board, row, col, dr, dc, i + 1)

Rays(board, row, col, dirs) ==
    Ray(board, row, col, dirs[1][1], dirs[1][2], 1) \o
    Ray(board, row, col, dirs[2][1], dirs[2][2], 1) \o
    Ray(board, row, col, dirs[3][1], dirs[3][2], 1) \o
    Ray(board, row, col, dirs[4][1], dirs[4][2], 1)

\* the offsets of a table that stay on the board, in table order
Steps(row, col, table) ==
    SelectSeq([i \in 1..Len(table) |-> <<row + table[i][1], col + table[i][2], NoType>>],
              LAMBDA m : OnBoard(m[1], m[2]))

\* pawn moves that type every diagonal capture as en passant
PawnMovesCaptureEnPassant(board, row, col, piece, enPassantTarget, movedPawns) ==
    LET isWhite == isWhitePiece(piece)
        dir == IF isWhite THEN -1 ELSE 1
        startRow == IF isWhite THEN 6 ELSE 1
        forward ==
            IF row + dir >= 0 /\ row + dir < 8 /\ Len(board[row + dir][col]) = 0
            THEN << <<row + dir, col, NoType>> >> \o
                 (IF row = startRow /\ piece \notin movedPawns
                     /\ Len(board[row + 2 * dir][col]) = 0
                  THEN << <<row + 2 * dir, col, NoType>> >> ELSE <<>>)
            ELSE <<>>
        capture(dc) ==
            LET newCol == col + dc
            IN  IF newCol >= 0 /\ newCol < 8 /\ row + dir >= 0 /\ row + dir < 8
                THEN (IF Len(board[row + dir][newCol]) > 0
                         /\ isWhitePiece(board[row + dir][newCol][1]) # isWhite
                      THEN << <<row + dir, newCol, "en-passant">> >> ELSE <<>>) \o
                     (IF enPassantTarget = <<row + dir, newCol>>
                      THEN << <<row + dir, newCol, "en-passant">> >> ELSE <<>>)
                ELSE <<>>
    IN  forward \o capture(-1) \o capture(1)

\* pawn moves that grant the double step to every pawn on its start row
PawnMovesFromStartRow(board, row, col, piece, enPassantTarget, movedPawns) ==
    LET isWhite == isWhitePiece(piece)
        dir == IF isWhite THEN -1 ELSE 1
        startRow == IF isWhite THEN 6 ELSE 1
        forward ==
            IF row + dir >= 0 /\ row + dir < 8 /\ Len(board[row + dir][col]) = 0
            THEN << <<row + dir, col, NoType>> >> \o
                 (IF row = startRow /\ Len(board[row + 2 * dir][col]) = 0
                  THEN << <<row + 2 * dir, col, NoType>> >> ELSE <<>>)
            ELSE <<>>
        capture(dc) ==
            LET newCol == col + dc
            IN  IF newCol >= 0 /\ newCol < 8 /\ row + dir >= 0 /\ row + dir < 8
                THEN (IF Len(board[row + dir][newCol]) > 0
                         /\ isWhitePiece(board[row + dir][newCol][1]) # isWhite
                      THEN << <<row + dir, newCol, NoType>> >> ELSE <<>>) \o
                     (IF enPassantTarget = <<row + dir, newCol>>
                      THEN << <<row + dir, newCol, "en-passant">> >> ELSE <<>>)
                ELSE <<>>
    IN  forward \o capture(-1) \o capture(1)

PawnMoves(board, row, col, piece, enPassantTarget, movedPawns) ==
    LET isWhite == isWhitePiece(piece)
        dir == IF isWhite THEN -1 ELSE 1
        startRow == IF isWhite THEN 6 ELSE 1
        forward ==
            IF row + dir >= 0 /\ row + dir < 8 /\ Len(board[row + dir][col]) = 0
            THEN << <<row + dir, col, NoType>> >> \o
                 (IF row = startRow /\ piece \notin movedPawns
                     /\ Len(board[row + 2 * dir][col]) = 0
                  THEN << <<row + 2 * dir, col, NoType>> >> ELSE <<>>)
            ELSE <<>>
        capture(dc) ==
            LET newCol == col + dc
            IN  IF newCol >= 0 /\ newCol < 8 /\ row + dir >= 0 /\ row + dir < 8
                THEN (IF Len(board[row + dir][newCol]) > 0
                         /\ isWhitePiece(board[row + dir][newCol][1]) # isWhite
                      THEN << <<row + dir, newCol, NoType>> >> ELSE <<>>) \o
                     (IF enPassantTarget = <<row + dir, newCol>>
                      THEN << <<row + dir, newCol, "en-passant">> >> ELSE <<>>)
                ELSE <<>>
    IN  forward \o capture(-1) \o capture(1)

\* one side's castling candidate of a king (kingSide: cols 7, 5, 6; queenSide: 0, 3, 2, 1)
CastleMoves(board, isWhite, rights) ==
    LET baseRow == IF isWhite THEN 7 ELSE 0
        variant(rookSquare, targetSquare, kingCol, side) ==
            IF Len(rookSquare) > 0 /\ SomeType(rookSquare, "r")
            THEN IF Len(targetSquare) = 0
                 THEN (IF Len(rookSquare) = 1
                       THEN << <<baseRow, kingCol, "castle-" \o side>> >>
                       ELSE IF Len(rookSquare) = 2
                       THEN << <<baseRow, kingCol, "castle-" \o side \o "-choice">> >>
                       ELSE <<>>)
                 ELSE IF Len(targetSquare) = 1 /\ isWhitePiece(targetSquare[1]) = isWhite
                 THEN (IF Len(rookSquare) = 1
                       THEN << <<baseRow, kingCol, "castle-" \o side \o "-klik">> >>
                       ELSE IF Len(rookSquare) = 2
                       THEN << <<baseRow, kingCol, "castle-" \o side \o "-unklik-klik">> >>
                       ELSE <<>>)
                 ELSE <<>>
            ELSE <<>>
        kingSide ==
            IF rights.kingSide /\ Len(board[baseRow][6]) = 0
            THEN variant(board[baseRow][7], board[baseRow][5], 6, "k") ELSE <<>>
        queenSide ==
            IF rights.queenSide /\ Len(board[baseRow][2]) = 0 /\ Len(board[baseRow][1]) = 0
            THEN variant(board[baseRow][0], board[baseRow][3], 2, "q") ELSE <<>>
    IN  kingSide \o queenSide

getPieceMoves(board, row, col, piece, castlingRights, enPassantTarget, movedPawns) ==
    LET isWhite == isWhitePiece(piece)
        p == getPieceType(piece)
    IN  CASE p = "p" -> PawnMoves(board, row, col, piece, enPassantTarget, movedPawns)
          [] p = "n" -> Steps(row, col, KNIGHT_MOVES)
          [] p = "b" -> Rays(board, row, col, DIAGONAL_DIRS)
          [] p = "r" -> Rays(board, row, col, ORTHOGONAL_DIRS)
          [] p = "q" -> Rays(board, row, col, DIAGONAL_DIRS) \o
                        Rays(board, row, col, ORTHOGONAL_DIRS)
          [] OTHER ->
               SelectSeq(Steps(row, col, KING_MOVES),
                         LAMBDA m : Len(board[m[1]][m[2]]) = 0
                                    \/ isWhitePiece(board[m[1]][m[2]][1]) # isWhite) \o
               CastleMoves(board, isWhite,
                           IF isWhite THEN castlingRights.white ELSE castlingRights.black)

(***************************************************************************)
(* Legality filter                                                         *)
(***************************************************************************)
CastleKTypes == {"castle-k", "castle-k-klik", "castle-k-unklik-klik",
                 "castle-k-choice", "castle-k-both"}
CastleQTypes == {"castle-q", "castle-q-klik", "castle-q-unklik-klik",
                 "castle-q-choice", "castle-q-both"}
\* moveType.startsWith('castle-')
IsCastle(moveType) == moveType \in (CastleKTypes \cup CastleQTypes)
\* moveType.includes('unklik-klik')
IsCastleUnklikKlik(moveType) == moveType \in {"castle-k-unklik-klik", "castle-q-unklik-klik"}
\* moveType.includes('klik') && !moveType.includes('unklik')
IsCastleKlik(moveType) == moveType \in {"castle-k-klik", "castle-q-klik"}
\* moveType.includes('both')
IsCastleBoth(moveType) == moveType \in {"castle-k-both", "castle-q-both"}

\* rookSquare.find(p => getPieceType(p) === 'r') and .find(p => getPieceType(p) !== 'r');
\* NoPiece stands for the source's undefined
FindRook(rookSquare) ==
    IF SomeType(rookSquare, "r")
    THEN rookSquare[CHOOSE i \in 1..Len(rookSquare) :
                        /\ getPieceType(rookSquare[i]) = "r"
                        /\ \A j \in 1..(i - 1) : getPieceType(rookSquare[j]) # "r"]
    ELSE NoPiece
FindOther(rookSquare) ==
    IF \E i \in 1..Len(rookSquare) : getPieceType(rookSquare[i]) # "r"
    THEN rookSquare[CHOOSE i \in 1..Len(rookSquare) :
                        /\ getPieceType(rookSquare[i]) # "r"
                        /\ \A j \in 1..(i - 1) : getPieceType(rookSquare[j]) = "r"]
    ELSE NoPiece

\* the first square, rows then columns, that holds the king of the colour: <<r, c>> or <<>>
FindKing(board, isWhite) ==
    LET k == IF isWhite THEN "K" ELSE "k"
        at == {n \in 0..63 : Includes(board[n \div 8][n % 8], k)}
    IN  IF at = {} THEN <<>>
        ELSE LET n == CHOOSE x \in at : \A y \in at : x <= y
             IN  <<n \div 8, n % 8>>

\* the scratch board of wouldBeInCheck for a castling type: king moved, rook placed
CastleTestBoard(board, fromRow, fromCol, toRow, toCol, pieces, moveType) ==
    LET isKingSide == moveType \in CastleKTypes
        rookCol == IF isKingSide THEN 7 ELSE 0
        newRookCol == IF isKingSide THEN 5 ELSE 3
        b1 == SetSq(SetSq(board, toRow, toCol, pieces), fromRow, fromCol, <<>>)
        rookSquare == b1[fromRow][rookCol]
        b2 == SetSq(b1, fromRow, rookCol, <<>>)
    IN  IF IsCastleUnklikKlik(moveType)
        THEN SetSq(b2, fromRow, newRookCol, <<FindRook(rookSquare)>> \o b2[fromRow][newRookCol])
        ELSE IF IsCastleKlik(moveType)
        THEN SetSq(b2, fromRow, newRookCol, rookSquare \o b2[fromRow][newRookCol])
        ELSE IF IsCastleBoth(moveType)
        THEN SetSq(b2, fromRow, newRookCol, rookSquare)
        ELSE IF Len(rookSquare) = 2
        THEN SetSq(b2, fromRow, newRookCol, <<FindRook(rookSquare)>>)
        ELSE SetSq(b2, fromRow, newRookCol, rookSquare)

\* the scratch board of wouldBeInCheck: the move applied mechanically
TestBoard(board, fromRow, fromCol, toRow, toCol, pieces, moveType, unklikIndex) ==
    LET isWhite == isWhitePiece(pieces[1])
        captureRow == IF isWhite THEN toRow + 1 ELSE toRow - 1
    IN  CASE moveType = "en-passant" ->
               SetSq(SetSq(SetSq(board, captureRow, toCol, <<>>),
                           toRow, toCol, pieces), fromRow, fromCol, <<>>)
          [] moveType = "en-passant-unklik" ->
               LET b1 == SetSq(SetSq(board, captureRow, toCol, <<>>),
                               toRow, toCol, <<pieces[unklikIndex + 1]>>)
               IN  SetSq(b1, fromRow, fromCol, RemoveAt(b1[fromRow][fromCol], unklikIndex))
          [] moveType = "unklik-klik" ->
               LET b1 == SetSq(board, toRow, toCol,
                               board[toRow][toCol] \o <<pieces[unklikIndex + 1]>>)
               IN  SetSq(b1, fromRow, fromCol, RemoveAt(b1[fromRow][fromCol], unklikIndex))
          [] moveType = "unklik" ->
               LET b1 == SetSq(board, toRow, toCol, <<pieces[unklikIndex + 1]>>)
               IN  SetSq(b1, fromRow, fromCol, RemoveAt(b1[fromRow][fromCol], unklikIndex))
          [] moveType = "klik" ->
               SetSq(SetSq(board, toRow, toCol, board[toRow][toCol] \o pieces),
                     fromRow, fromCol, <<>>)
          [] IsCastle(moveType) ->
               CastleTestBoard(board, fromRow, fromCol, toRow, toCol, pieces, moveType)
          [] OTHER ->
               SetSq(SetSq(board, toRow, toCol, pieces), fromRow, fromCol, <<>>)

\* CastleThroughCheck without the square the king crosses
CastleEndsOnlyCheck(testBoard, fromRow, fromCol, toCol, moveType, isWhite) ==
    \E checkCol \in {fromCol, toCol} :
        isSquareAttacked(testBoard, fromRow, checkCol, isWhite)

\* the king's walk of a castling type crosses an attacked square of the scratch board
CastleThroughCheck(testBoard, fromRow, fromCol, toCol, moveType, isWhite) ==
    LET throughSquare == IF moveType \in CastleKTypes THEN fromCol + 1 ELSE fromCol - 1
    IN  \E checkCol \in {fromCol, throughSquare, toCol} :
            isSquareAttacked(testBoard, fromRow, checkCol, isWhite)

wouldBeInCheck(board, fromRow, fromCol, toRow, toCol, pieces, moveType, unklikIndex) ==
    LET isWhite == isWhitePiece(pieces[1])
        testBoard == TestBoard(board, fromRow, fromCol, toRow, toCol, pieces,
                               moveType, unklikIndex)
        king == FindKing(testBoard, isWhite)
    IN  \/ /\ IsCastle(moveType)
           /\ CastleThroughCheck(testBoard, fromRow, fromCol, toCol, moveType, isWhite)
        \/ /\ king # <<>>
           /\ isSquareAttacked(testBoard, king[1], king[2], isWhite)

\* Check if the king is in check
isInCheck(board, color) ==
    LET isWhite == color = "white"
        king == FindKing(board, isWhite)
    IN  king # <<>> /\ isSquareAttacked(board, king[1], king[2], isWhite)

(***************************************************************************)
(* getCombinedMoves.  allMoves, the source's Map keyed by "r,c", is a      *)
(* function from the key 8 * r + c to the move type stored (NoMove: no     *)
(* entry).  The result is the set of ValidMove <<row, col, type>>.         *)
(***************************************************************************)
NoMove == "none"
Key(r, c) == 8 * r + c
OrNormal(moveType) == IF moveType = NoType THEN "normal" ELSE moveType

\* the body of the loop over one piece's moves: allMoves after the move is handled
CombineMove(allMoves, board, row, col, pieces, piece, move) ==
    LET r == move[1]
        c == move[2]
        moveType == move[3]
        key == Key(r, c)
        targetSq == board[r][c]
        isWhite == isWhitePiece(pieces[1])
        canKlik == Len(pieces) = 1
        hasPawn == SomePawn(pieces)
        isPawnMove == isPawn(piece)
        isPromotionRank == (isWhite /\ r = 0) \/ (~isWhite /\ r = 7)
        isOwnBackRank == (isWhite /\ r = 7) \/ (~isWhite /\ r = 0)
        existing == allMoves[key]
        free == Len(targetSq) = 0 \/ isWhitePiece(targetSq[1]) # isWhite
        isStraight == isPawnMove /\ col = c
        hasNoKing == ~SomeType(targetSq, "k") /\ ~SomeType(pieces, "k")
    IN  IF hasPawn /\ Len(pieces) = 2 /\ ~isPawnMove /\ isPromotionRank THEN allMoves
        ELSE IF hasPawn /\ isOwnBackRank THEN allMoves
        ELSE IF moveType = "en-passant"
        THEN IF existing # NoMove /\ existing # "en-passant"
             THEN [allMoves EXCEPT ![key] = "en-passant-choice"]
             ELSE [allMoves EXCEPT ![key] = "en-passant"]
        ELSE IF existing = "en-passant"
        THEN [allMoves EXCEPT ![key] = "en-passant-choice"]
        ELSE IF ~canKlik
        THEN IF free THEN [allMoves EXCEPT ![key] = OrNormal(moveType)] ELSE allMoves
        ELSE IF Len(targetSq) > 0 /\ isWhitePiece(targetSq[1]) = isWhite
        THEN IF (isStraight \/ ~isPawnMove) /\ Len(targetSq) < 2 /\ hasNoKing
             THEN [allMoves EXCEPT ![key] = "klik"]
             ELSE allMoves
        ELSE IF free THEN [allMoves EXCEPT ![key] = OrNormal(moveType)]
        ELSE allMoves

RECURSIVE CombineMoves(_, _, _, _, _, _, _, _)
\* for (const move of moves) { ... }, from move i on
CombineMoves(allMoves, board, row, col, pieces, piece, moves, i) ==
    IF i > Len(moves) THEN allMoves
    ELSE CombineMoves(CombineMove(allMoves, board, row, col, pieces, piece, moves[i]),
                      board, row, col, pieces, piece, moves, i + 1)

RECURSIVE CombinePieces(_, _, _, _, _, _, _, _, _)
\* for (const piece of pieces) { ... }, from piece i on
CombinePieces(allMoves, board, row, col, pieces, castlingRights, enPassantTarget, movedPawns, i) ==
    IF i > Len(pieces) THEN allMoves
    ELSE CombinePieces(
             CombineMoves(allMoves, board, row, col, pieces, pieces[i],
                          getPieceMoves(board, row, col, pieces[i], castlingRights,
                                        enPassantTarget, movedPawns), 1),
             board, row, col, pieces, castlingRights, enPassantTarget, movedPawns, i + 1)

\* pawn klik moves that allow the klik two squares ahead to a pawn that has moved
PawnKlikMovesAnyPawn(allMoves, board, row, col, pieces, movedPawns) ==
    LET isWhite == isWhitePiece(pieces[1])
        dir == IF isWhite THEN -1 ELSE 1
        startRow == IF isWhite THEN 6 ELSE 1
        klikTarget(sq) == /\ Len(sq) = 1
                          /\ isWhitePiece(sq[1]) = isWhite
                          /\ ~SomeType(sq, "k")
        one == IF row + dir >= 0 /\ row + dir < 8 /\ klikTarget(board[row + dir][col])
               THEN [allMoves EXCEPT ![Key(row + dir, col)] = "klik"]
               ELSE allMoves
    IN  IF Len(pieces) = 1 /\ SomePawn(pieces)
        THEN IF /\ row = startRow
                /\ row + 2 * dir >= 0 /\ row + 2 * dir < 8
                /\ Len(board[row + dir][col]) = 0
                /\ klikTarget(board[row + 2 * dir][col])
             THEN [one EXCEPT ![Key(row + 2 * dir, col)] = "klik"]
             ELSE one
        ELSE allMoves

\* Special pawn klik moves: pawn can klik straight forward with own pieces
PawnKlikMoves(allMoves, board, row, col, pieces, movedPawns) ==
    LET isWhite == isWhitePiece(pieces[1])
        dir == IF isWhite THEN -1 ELSE 1
        startRow == IF isWhite THEN 6 ELSE 1
        klikTarget(sq) == /\ Len(sq) = 1
                          /\ isWhitePiece(sq[1]) = isWhite
                          /\ ~SomeType(sq, "k")
        one == IF row + dir >= 0 /\ row + dir < 8 /\ klikTarget(board[row + dir][col])
               THEN [allMoves EXCEPT ![Key(row + dir, col)] = "klik"]
               ELSE allMoves
    IN  IF Len(pieces) = 1 /\ SomePawn(pieces)
        THEN IF /\ row = startRow /\ pieces[1] \notin movedPawns
                /\ row + 2 * dir >= 0 /\ row + 2 * dir < 8
                /\ Len(board[row + dir][col]) = 0
                /\ klikTarget(board[row + 2 * dir][col])
             THEN [one EXCEPT ![Key(row + 2 * dir, col)] = "klik"]
             ELSE one
        ELSE allMoves

\* allMoves before the check filter
AllMoves(board, row, col, pieces, castlingRights, enPassantTarget, movedPawns) ==
    PawnKlikMoves(
        CombinePieces([k \in 0..63 |-> NoMove], board, row, col, pieces, castlingRights,
                      enPassantTarget, movedPawns, 1),
        board, row, col, pieces, movedPawns)

getCombinedMoves(board, row, col, pieces, castlingRights, enPassantTarget, movedPawns, selectedUnklikPiece) ==
    LET allMoves == AllMoves(board, row, col, pieces, castlingRights, enPassantTarget,
                             movedPawns)
    IN  {m \in {<<k \div 8, k % 8, allMoves[k]>> : k \in {x \in 0..63 : allMoves[x] # NoMove}} :
            ~wouldBeInCheck(board, row, col, m[1], m[2], pieces, m[3], selectedUnklikPiece)}

(***************************************************************************)
(* hasLegalMoves                                                           *)
(***************************************************************************)
\* Pawn klik targets pushed onto singleMoves for a stacked pawn
PawnKlikTargets(board, r, c, piece, isWhite, movedPawns) ==
    LET dir == IF isWhite THEN -1 ELSE 1
        startRow == IF isWhite THEN 6 ELSE 1
        promoRank == IF isWhite THEN 0 ELSE 7
        fwdRow == r + dir
        dblRow == r + 2 * dir
        friendly(sq) == /\ Len(sq) = 1
                        /\ isWhitePiece(sq[1]) = isWhite
                        /\ getPieceType(sq[1]) # "k"
    IN  (IF fwdRow >= 0 /\ fwdRow < 8 /\ fwdRow # promoRank /\ friendly(board[fwdRow][c])
         THEN << <<fwdRow, c, NoType>> >> ELSE <<>>) \o
        (IF /\ r = startRow /\ piece \notin movedPawns
            /\ Len(board[fwdRow][c]) = 0 /\ dblRow # promoRank
            /\ friendly(board[dblRow][c])
         THEN << <<dblRow, c, NoType>> >> ELSE <<>>)

\* the unklik part of hasLegalMoves for piece i (0-based) of a stacked square
HasLegalUnklik(board, r, c, i, isWhite, castlingRights, enPassantTarget, movedPawns) ==
    LET pieces == board[r][c]
        piece == pieces[i + 1]
        singleMoves ==
            getPieceMoves(board, r, c, piece, castlingRights, enPassantTarget, movedPawns) \o
            (IF isPawn(piece) THEN PawnKlikTargets(board, r, c, piece, isWhite, movedPawns)
             ELSE <<>>)
    IN  \E n \in 1..Len(singleMoves) :
            LET mr == singleMoves[n][1]
                mc == singleMoves[n][2]
                targetSq == board[mr][mc]
            IN  IF Len(targetSq) = 0 \/ isWhitePiece(targetSq[1]) # isWhite
                THEN ~wouldBeInCheck(board, r, c, mr, mc, pieces, "unklik", i)
                ELSE /\ Len(targetSq) < 2
                     /\ isWhitePiece(targetSq[1]) = isWhite
                     /\ ~SomeType(targetSq, "k")
                     /\ ~wouldBeInCheck(board, r, c, mr, mc, pieces, "unklik-klik", i)

hasLegalMoves(board, color, castlingRights, enPassantTarget, movedPawns) ==
    LET isWhite == color = "white"
    IN  \E r \in Idx, c \in Idx :
            /\ Len(board[r][c]) > 0
            /\ isWhitePiece(board[r][c][1]) = isWhite
            /\ \/ getCombinedMoves(board, r, c, board[r][c], castlingRights,
                                   enPassantTarget, movedPawns, -1) # {}
               \/ /\ Len(board[r][c]) = 2
                  /\ \E i \in 0..1 :
                         HasLegalUnklik(board, r, c, i, isWhite, castlingRights,
                                        enPassantTarget, movedPawns)

(***************************************************************************)
(* GameSession: the executors.  A submitted move is the record             *)
(*   [from, to : <<row, col>>, moveType, unklikIndex, promoteTo]           *)
(* with unklikIndex -1 for "absent" and promoteTo NoPiece for "absent";    *)
(* its pieces are the handler's copy of the source square.                 *)
(***************************************************************************)
Opp(color) == IF color = "white" THEN "black" ELSE "white"
NoRights == [kingSide |-> FALSE, queenSide |-> FALSE]

createInitialBoard ==
    LET backRank == <<"r", "n", "b", "q", "k", "b", "n", "r">>
        whiteBack == <<"R", "N", "B", "Q", "K", "B", "N", "R">>
        blackPawn == <<"p0", "p1", "p2", "p3", "p4", "p5", "p6", "p7">>
        whitePawn == <<"P0", "P1", "P2", "P3", "P4", "P5", "P6", "P7">>
    IN  [r \in Idx |-> [c \in Idx |->
            CASE r = 0 -> <<backRank[c + 1]>>
              [] r = 1 -> <<blackPawn[c + 1]>>
              [] r = 6 -> <<whitePawn[c + 1]>>
              [] r = 7 -> <<whiteBack[c + 1]>>
              [] OTHER -> <<>>]]

\* the board and castling rights after executeCastling
executeCastling(board, castlingRights, currentTurn, fromRow, fromCol, toRow, toCol, castleType) ==
    LET isKingSide == castleType \in CastleKTypes
        rookCol == IF isKingSide THEN 7 ELSE 0
        newRookCol == IF isKingSide THEN 5 ELSE 3
        b1 == SetSq(SetSq(board, toRow, toCol, board[fromRow][fromCol]),
                    fromRow, fromCol, <<>>)
        rookSquare == b1[fromRow][rookCol]
        b2 == SetSq(b1, fromRow, rookCol, <<>>)
        b3 == IF IsCastleUnklikKlik(castleType)
              THEN SetSq(SetSq(b2, fromRow, newRookCol,
                               <<FindRook(rookSquare)>> \o b2[fromRow][newRookCol]),
                         fromRow, rookCol, <<FindOther(rookSquare)>>)
              ELSE IF IsCastleKlik(castleType)
              THEN SetSq(b2, fromRow, newRookCol, rookSquare \o b2[fromRow][newRookCol])
              ELSE IF IsCastleBoth(castleType)
              THEN SetSq(b2, fromRow, newRookCol, rookSquare)
              ELSE IF Len(rookSquare) = 2
              THEN SetSq(SetSq(b2, fromRow, newRookCol, <<FindRook(rookSquare)>>),
                         fromRow, rookCol, <<FindOther(rookSquare)>>)
              ELSE SetSq(b2, fromRow, newRookCol, rookSquare)
    IN  [board |-> b3,
         castlingRights |-> [castlingRights EXCEPT ![currentTurn] = NoRights]]

\* an en passant capture that takes only the first piece of the square behind
executeEnPassantFirstOnly(board, fromRow, fromCol, toRow, toCol, pieces, moveType, unklikIndex) ==
    LET isWhite == isWhitePiece(pieces[1])
        captureRow == IF isWhite THEN toRow + 1 ELSE toRow - 1
        captured == board[captureRow][toCol]
        b1 == SetSq(board, captureRow, toCol,
                    IF Len(captured) = 0 THEN <<>> ELSE Tail(captured))
    IN  IF moveType = "en-passant-unklik" /\ unklikIndex # -1
        THEN SetSq(SetSq(b1, toRow, toCol, <<pieces[unklikIndex + 1]>>),
                   fromRow, fromCol, RemoveAt(pieces, unklikIndex))
        ELSE SetSq(SetSq(b1, fromRow, fromCol, <<>>), toRow, toCol, pieces)

\* the board after executeEnPassant
executeEnPassant(board, fromRow, fromCol, toRow, toCol, pieces, moveType, unklikIndex) ==
    LET isWhite == isWhitePiece(pieces[1])
        captureRow == IF isWhite THEN toRow + 1 ELSE toRow - 1
        b1 == SetSq(board, captureRow, toCol, <<>>)
    IN  IF moveType = "en-passant-unklik" /\ unklikIndex # -1
        THEN SetSq(SetSq(b1, toRow, toCol, <<pieces[unklikIndex + 1]>>),
                   fromRow, fromCol, RemoveAt(pieces, unklikIndex))
        ELSE SetSq(SetSq(b1, fromRow, fromCol, <<>>), toRow, toCol, pieces)

\* promotion of the pieces that arrived: non-pawns kept, promoteTo put in front
Promoted(newPieces, promoteTo) == <<promoteTo>> \o NonPawns(newPieces)

\* the board after executeUnklik
executeUnklik(board, fromRow, fromCol, toRow, toCol, pieces, moveType, unklikIndex, promoteTo) ==
    LET movingPiece == pieces[unklikIndex + 1]
        isWhite == isWhitePiece(movingPiece)
        isPromotionRank == (isWhite /\ toRow = 0) \/ (~isWhite /\ toRow = 7)
        b1 == SetSq(board, fromRow, fromCol, RemoveAt(pieces, unklikIndex))
        b2 == IF moveType = "unklik-klik"
              THEN SetSq(b1, toRow, toCol, b1[toRow][toCol] \o <<movingPiece>>)
              ELSE SetSq(b1, toRow, toCol, <<movingPiece>>)
    IN  IF isPawn(movingPiece) /\ isPromotionRank /\ promoteTo # NoPiece
        THEN SetSq(b2, toRow, toCol, Promoted(b2[toRow][toCol], promoteTo))
        ELSE b2

\* the board, castling rights and en passant target after executeNormalMove
\* (executeMove has reset the target to null before)
executeNormalMove(board, castlingRights, fromRow, fromCol, toRow, toCol, pieces, moveType, promoteTo) ==
    LET toSquare == board[toRow][toCol]
        isWhite == isWhitePiece(pieces[1])
        isCapture == Len(toSquare) > 0 /\ isWhitePiece(toSquare[1]) # isWhite
        hasPawn == SomePawn(pieces)
        isPromotionRank == (isWhite /\ toRow = 0) \/ (~isWhite /\ toRow = 7)
        b1 == SetSq(board, fromRow, fromCol, <<>>)
        b2 == IF moveType = "klik"
              THEN SetSq(b1, toRow, toCol, b1[toRow][toCol] \o pieces)
              ELSE SetSq(b1, toRow, toCol, pieces)
        b3 == IF hasPawn /\ isPromotionRank /\ promoteTo # NoPiece
              THEN SetSq(b2, toRow, toCol, Promoted(b2[toRow][toCol], promoteTo))
              ELSE b2
        isStraightMove == fromCol = toCol
        isFromStartRank == (isWhite /\ fromRow = 6) \/ (~isWhite /\ fromRow = 1)
    IN  [board |-> b3,
         enPassantTarget |->
             IF hasPawn /\ isStraightMove /\ isFromStartRank /\ ~isCapture
                /\ Abs(fromRow - toRow) = 2
             THEN <<(fromRow + toRow) \div 2, toCol>> ELSE <<>>,
         castlingRights |->
             IF Includes(pieces, "K") THEN [castlingRights EXCEPT !.white = NoRights]
             ELSE IF Includes(pieces, "k") THEN [castlingRights EXCEPT !.black = NoRights]
             ELSE castlingRights]

\* Rook captured or moved
updateCastlingRights(castlingRights, fromRow, fromCol, toRow, toCol) ==
    LET touches(r, c) == (toRow = r /\ toCol = c) \/ (fromRow = r /\ fromCol = c)
    IN  [white |-> [kingSide |-> castlingRights.white.kingSide /\ ~touches(7, 7),
                    queenSide |-> castlingRights.white.queenSide /\ ~touches(7, 0)],
         black |-> [kingSide |-> castlingRights.black.kingSide /\ ~touches(0, 7),
                    queenSide |-> castlingRights.black.queenSide /\ ~touches(0, 0)]]

\* the pawns of the source square, all added to movedPawns
PawnsOf(pieces) == {pieces[i] : i \in {j \in 1..Len(pieces) : isPawn(pieces[j])}}

(***************************************************************************)
(* validateMove: the moves of the source square that pass the check        *)
(* filter, and the match of a submit against them                          *)
(***************************************************************************)
UnklikTypes == {"unklik", "unklik-klik", "en-passant-unklik"}

\* validMoves of the unklik path: the single piece's moves, typed and check-filtered
UnklikValidMoves(board, fromRow, fromCol, unklikIndex, castlingRights, enPassantTarget, movedPawns) ==
    LET fromSquare == board[fromRow][fromCol]
        isWhite == isWhitePiece(fromSquare[1])
        piece == fromSquare[unklikIndex + 1]
        singleMoves == getPieceMoves(board, fromRow, fromCol, piece, castlingRights,
                                     enPassantTarget, movedPawns)
        typed(m) ==
            LET targetSq == board[m[1]][m[2]]
            IN  IF m[3] = "en-passant" THEN "en-passant-unklik"
                ELSE IF Len(targetSq) = 0 \/ isWhitePiece(targetSq[1]) # isWhite
                THEN "unklik"
                ELSE IF Len(targetSq) < 2 /\ isWhitePiece(targetSq[1]) = isWhite
                        /\ ~SomeType(targetSq, "k")
                THEN "unklik-klik"
                ELSE NoMove
        all == {<<singleMoves[n][1], singleMoves[n][2], typed(singleMoves[n])>> :
                    n \in 1..Len(singleMoves)}
    IN  {m \in all : /\ m[3] # NoMove
                     /\ ~wouldBeInCheck(board, fromRow, fromCol, m[1], m[2], fromSquare,
                                        m[3], unklikIndex)}

\* validMoves.some(m => ...): the submit's target and type match a valid move
Matches(validMoves, toRow, toCol, moveType) ==
    \E m \in validMoves :
        /\ m[1] = toRow /\ m[2] = toCol
        /\ \/ m[3] = moveType
           \/ m[3] = "en-passant-choice" /\ moveType \in {"en-passant", "normal"}
           \/ m[3] = "castle-k-choice" /\ moveType \in {"castle-k", "castle-k-both"}
           \/ m[3] = "castle-q-choice" /\ moveType \in {"castle-q", "castle-q-both"}

(***************************************************************************)
(* The client's local executor (movePiece, executeCastling and the state   *)
(* module's setters), used when no server holds the game                   *)
(***************************************************************************)
\* state.updateCastlingRights: a rook of the pieces arrives on or leaves its corner
ClientUpdateCastlingRights(castlingRights, fromRow, fromCol, toRow, toCol, pieces) ==
    LET touches(r, c) == (toRow = r /\ toCol = c) \/ (fromRow = r /\ fromCol = c)
        R == Includes(pieces, "R")
        r == Includes(pieces, "r")
    IN  [white |-> [kingSide |-> castlingRights.white.kingSide /\ ~(R /\ touches(7, 7)),
                    queenSide |-> castlingRights.white.queenSide /\ ~(R /\ touches(7, 0))],
         black |-> [kingSide |-> castlingRights.black.kingSide /\ ~(r /\ touches(0, 7)),
                    queenSide |-> castlingRights.black.queenSide /\ ~(r /\ touches(0, 0))]]

\* state.disableCastling
disableCastling(castlingRights, color) == [castlingRights EXCEPT ![color] = NoRights]

\* the client's executeCastling in local play: the board as the server's executeCastling
\* leaves it, the rights of the side disabled, the turn switched; the en passant target
\* is not touched
ClientExecuteCastling(position, fromRow, fromCol, toRow, toCol, castleType) ==
    LET x == executeCastling(position.board, position.castlingRights, position.currentTurn,
                             fromRow, fromCol, toRow, toCol, castleType)
    IN  [board |-> x.board,
         currentTurn |-> Opp(position.currentTurn),
         castlingRights |-> disableCastling(position.castlingRights, position.currentTurn),
         enPassantTarget |-> position.enPassantTarget,
         movedPawns |-> position.movedPawns,
         pendingPromotion |-> FALSE]

\* movePiece in local play, with the state's selectedUnklikPiece and autoPromoteToQueen.
\* pendingPromotion: the promotion dialog is shown and finishMove has not run.
movePiece(position, fromRow, fromCol, toRow, toCol, moveType, selectedUnklikPiece, promoteTo, autoPromote) ==
    LET fromSq == position.board[fromRow][fromCol]
        toSq == position.board[toRow][toCol]
        turn == position.currentTurn
        isCapture == Len(toSq) > 0
        done(b, rights, target, moved) ==
            [board |-> b, currentTurn |-> Opp(turn), castlingRights |-> rights,
             enPassantTarget |-> target, movedPawns |-> moved, pendingPromotion |-> FALSE]
        pending(b) ==
            [board |-> b, currentTurn |-> turn, castlingRights |-> position.castlingRights,
             enPassantTarget |-> <<>>, movedPawns |-> position.movedPawns,
             pendingPromotion |-> TRUE]
        resolvedPromo(isWhite) ==
            IF promoteTo # NoPiece THEN promoteTo
            ELSE IF autoPromote THEN (IF isWhite THEN "Q" ELSE "q") ELSE NoPiece
        \* the tail of movePiece: en passant target, king's rights, moved pawns
        tail(b, rights, piecesToMove) ==
            LET hasPawn == SomePawn(piecesToMove)
                isWhite == isWhitePiece(piecesToMove[1])
                isFromStartRank == (isWhite /\ fromRow = 6) \/ (~isWhite /\ fromRow = 1)
                target == IF hasPawn /\ fromCol = toCol /\ isFromStartRank /\ ~isCapture
                             /\ Abs(fromRow - toRow) = 2
                          THEN <<(fromRow + toRow) \div 2, toCol>> ELSE <<>>
                rights2 == IF Includes(piecesToMove, "K") THEN disableCastling(rights, "white")
                           ELSE IF Includes(piecesToMove, "k")
                           THEN disableCastling(rights, "black")
                           ELSE rights
            IN  done(b, rights2, target, position.movedPawns \cup PawnsOf(piecesToMove))
        promote(b, isWhite) ==
            IF resolvedPromo(isWhite) # NoPiece
            THEN LET newPieces == Promoted(b[toRow][toCol], resolvedPromo(isWhite))
                 IN  done(SetSq(b, toRow, toCol, newPieces),
                          ClientUpdateCastlingRights(position.castlingRights, fromRow, fromCol,
                                                     toRow, toCol, newPieces),
                          <<>>, position.movedPawns)
            ELSE pending(b)
    IN  IF moveType \in {"unklik", "unklik-klik", "en-passant-unklik"}
        THEN LET movingPiece == fromSq[selectedUnklikPiece + 1]
                 piecesToMove == <<movingPiece>>
                 b1 == SetSq(position.board, fromRow, fromCol,
                             RemoveAt(fromSq, selectedUnklikPiece))
                 isWhite == isWhitePiece(movingPiece)
                 isPromotionRank == (isWhite /\ toRow = 0) \/ (~isWhite /\ toRow = 7)
                 b2 == IF moveType = "unklik-klik"
                       THEN SetSq(b1, toRow, toCol, toSq \o <<movingPiece>>)
                       ELSE SetSq(b1, toRow, toCol, <<movingPiece>>)
             IN  IF moveType = "en-passant-unklik"
                 THEN LET captureRow == IF turn = "white" THEN toRow + 1 ELSE toRow - 1
                      IN  done(SetSq(SetSq(b1, captureRow, toCol, <<>>),
                                     toRow, toCol, <<movingPiece>>),
                               ClientUpdateCastlingRights(position.castlingRights, fromRow,
                                                          fromCol, toRow, toCol, piecesToMove),
                               <<>>, position.movedPawns)
                 ELSE IF isPawn(movingPiece) /\ isPromotionRank THEN promote(b2, isWhite)
                 ELSE tail(b2, ClientUpdateCastlingRights(position.castlingRights, fromRow,
                                                          fromCol, toRow, toCol, piecesToMove),
                           piecesToMove)
        ELSE IF moveType = "en-passant"
        THEN LET captureRow == IF turn = "white" THEN toRow + 1 ELSE toRow - 1
             IN  tail(SetSq(SetSq(SetSq(position.board, fromRow, fromCol, <<>>),
                                  captureRow, toCol, <<>>), toRow, toCol, fromSq),
                      position.castlingRights, fromSq)
        ELSE LET piecesToMove == fromSq
                 b1 == SetSq(position.board, fromRow, fromCol, <<>>)
                 isWhite == isWhitePiece(piecesToMove[1])
                 isPromotionRank == (isWhite /\ toRow = 0) \/ (~isWhite /\ toRow = 7)
                 b2 == IF moveType = "klik"
                       THEN SetSq(b1, toRow, toCol, toSq \o piecesToMove)
                       ELSE SetSq(b1, toRow, toCol, piecesToMove)
             IN  IF SomePawn(piecesToMove) /\ isPromotionRank THEN promote(b2, isWhite)
                 ELSE tail(b2, ClientUpdateCastlingRights(position.castlingRights, fromRow,
                                                          fromCol, toRow, toCol, piecesToMove),
                           piecesToMove)

\* the client executing a move given with the parameters of a submit: castling goes to
\* executeCastling, every other type to movePiece
ClientExecuted(position, move, autoPromote) ==
    IF move.moveType \in CastleKTypes \cup CastleQTypes
    THEN ClientExecuteCastling(position, move.from[1], move.from[2], move.to[1], move.to[2],
                               move.moveType)
    ELSE movePiece(position, move.from[1], move.from[2], move.to[1], move.to[2],
                   move.moveType, move.unklikIndex, move.promoteTo, autoPromote)

(***************************************************************************)
(* The position string of the board editor (analysis/boardEditor.ts).  A   *)
(* string is the sequence of its characters.                               *)
(***************************************************************************)
\* piece[0]
getPieceFENChar(piece) ==
    IF piece \in WhitePawnIds THEN "P" ELSE IF piece \in BlackPawnIds THEN "p" ELSE piece

\* the decimal digit of a count of empty squares, and parseInt of it
Digits == <<"1", "2", "3", "4", "5", "6", "7", "8">>
ParseInt(char) == CHOOSE n \in 1..8 : Digits[n] = char
IsDigit(char) == \E n \in 1..8 : Digits[n] = char

\* pieces.map(getPieceFENChar).join('')
FENChars(pieces) == [i \in 1..Len(pieces) |-> getPieceFENChar(pieces[i])]

RECURSIVE FENRow(_, _, _, _)
\* rowStr of one row of getBoardAsFEN, from column c on with emptyCount empty squares
\* counted
FENRow(board, r, c, emptyCount) ==
    IF c = 8 THEN (IF emptyCount > 0 THEN <<Digits[emptyCount]>> ELSE <<>>)
    ELSE LET pieces == board[r][c]
         IN  IF Len(pieces) = 0 THEN FENRow(board, r, c + 1, emptyCount + 1)
             ELSE (IF emptyCount > 0 THEN <<Digits[emptyCount]>> ELSE <<>>) \o
                  (IF Len(pieces) = 1 THEN <<getPieceFENChar(pieces[1])>>
                   ELSE <<"(">> \o FENChars(pieces) \o <<")">>) \o
                  FENRow(board, r, c + 1, 0)

RECURSIVE JoinRows(_, _)
\* rows.join('/'), from row r on
JoinRows(board, r) ==
    FENRow(board, r, 0, 0) \o (IF r = 7 THEN <<>> ELSE <<"/">> \o JoinRows(board, r + 1))

\* getBoardAsFEN: the rows joined by '/', a space, and the side to move
getBoardAsFEN(board, turn) ==
    JoinRows(board, 0) \o <<" ", IF turn = "white" THEN "w" ELSE "b">>

RECURSIVE Split(_, _)
\* str.split(sep)
Split(str, sep) ==
    IF \A i \in 1..Len(str) : str[i] # sep THEN <<str>>
    ELSE LET first == CHOOSE i \in 1..Len(str) :
                          str[i] = sep /\ \A j \in 1..(i - 1) : str[j] # sep
         IN  <<SubSeq(str, 1, first - 1)>> \o Split(SubSeq(str, first + 1, Len(str)), sep)

\* fenCharToPiece: the pawn counter starts at 0 in every call
fenCharToPiece(char) ==
    IF char = "P" THEN "P0"
    ELSE IF char = "p" THEN "p0"
    ELSE IF char \in {"K", "Q", "R", "B", "N", "k", "q", "r", "b", "n"} THEN char
    ELSE NoPiece

\* the pieces of a stack string, the characters without a piece left out
StackPieces(stackStr) ==
    SelectSeq([i \in 1..Len(stackStr) |-> fenCharToPiece(stackStr[i])],
              LAMBDA piece : piece # NoPiece)

RECURSIVE LoadRow(_, _, _, _, _)
\* the while loop of setBoardFromFEN over one row string: the board after it, or the
\* empty sequence when a stack is not closed (return false)
LoadRow(board, r, rowStr, i, c) ==
    IF ~(i <= Len(rowStr) /\ c < 8) THEN board
    ELSE LET char == rowStr[i]
         IN  IF IsDigit(char) THEN LoadRow(board, r, rowStr, i + 1, c + ParseInt(char))
             ELSE IF char = "("
             THEN IF \A k \in i..Len(rowStr) : rowStr[k] # ")" THEN <<>>
                  ELSE LET closeIdx == CHOOSE k \in i..Len(rowStr) :
                                          rowStr[k] = ")" /\ \A j \in i..(k - 1) : rowStr[j] # ")"
                       IN  LoadRow(SetSq(board, r, c,
                                         StackPieces(SubSeq(rowStr, i + 1, closeIdx - 1))),
                                   r, rowStr, closeIdx + 1, c + 1)
             ELSE LoadRow(IF fenCharToPiece(char) # NoPiece
                          THEN SetSq(board, r, c, <<fenCharToPiece(char)>>) ELSE board,
                          r, rowStr, i + 1, c + 1)

RECURSIVE LoadRows(_, _, _)
\* the loop over the eight rows, from row r on
LoadRows(board, rows, r) ==
    IF r = 8 \/ board = <<>> THEN board
    ELSE LoadRows(LoadRow(board, r, rows[r + 1], 1, 0), rows, r + 1)

\* clearBoard: every square emptied
clearBoard == [r \in Idx |-> [c \in Idx |-> <<>>]]

\* setBoardFromFEN on a position: the position after it.  The string sets the board and
\* the side to move; the editor leaves the other fields of the state as they are.
setBoardFromFEN(fen, position) ==
    LET parts == Split(fen, " ")
        turnPart == IF Len(parts) >= 2 /\ parts[2] # <<>> THEN parts[2] ELSE <<"w">>
        rows == Split(parts[1], "/")
        loaded == IF Len(rows) # 8 THEN <<>> ELSE LoadRows(clearBoard, rows, 0)
    IN  IF loaded = <<>> THEN [position EXCEPT !.board = clearBoard]
        ELSE [position EXCEPT !.board = loaded,
                              !.currentTurn = IF turnPart = <<"b">> THEN "black" ELSE "white"]

(***************************************************************************)
(* The state: one GameSession, its clock, and the GameService maps that    *)
(* refer to it                                                             *)
(***************************************************************************)
VARIABLES
    board,            \* GameSession.board
    currentTurn,      \* GameSession.currentTurn
    castlingRights,   \* GameSession.castlingRights
    enPassantTarget,  \* GameSession.enPassantTarget: <<>> or <<row, col>>
    movedPawns,       \* GameSession.movedPawns
    moveHistory,      \* GameSession.moveHistory: the turn of every entry
    whitePlayer,      \* GameSession.whitePlayer: a player id or NoPlayer
    blackPlayer,      \* GameSession.blackPlayer
    gameStarted,      \* GameSession.gameStarted
    gameOver,         \* GameSession.gameOver
    result,           \* GameSession.result: NoResult or [type, winner]
    onGameEnd,        \* GameSession.onGameEnd is set (game:join set the callbacks)
    activeColor,      \* GameTimer.activeColor: NoColor while the clock is stopped
    activeSessions,   \* GameService.activeSessions and gameCodeToId hold the session
    playerToGame,     \* GameService.playerToGame: the players mapped to the session
    kingMoved,        \* history: the king of the colour has changed square
    rookLeft,         \* history: the corner's original rook has left or was taken
    lastMove,         \* history: the submit of the last committed move
    before,           \* history: the position the last committed move was made in
    book,             \* the line of play the two clients follow
    lastReply,        \* observer: the reply to the last submit that is watched
    lobby,            \* the server's lobby with its sessions (lobby.ts, GameService)
    engine,           \* the client's game against the engine (engineGame.ts)
    premove,          \* the stored premove of each player's client (premove.ts)
    analysis          \* the client's analysis mode (analysisMode.ts)

sessionVars == <<board, currentTurn, castlingRights, enPassantTarget, movedPawns,
                 moveHistory>>
seatVars == <<whitePlayer, blackPlayer>>
flowVars == <<gameStarted, gameOver, result, onGameEnd, activeColor>>
serviceVars == <<activeSessions, playerToGame>>
historyVars == <<kingMoved, rookLeft, lastMove, before>>
gameVars == <<sessionVars, seatVars, flowVars, serviceVars, historyVars, book>>
\* the variables of the other parts of the program, which the session's handlers leave
\* alone
otherVars == <<lobby, engine, premove, analysis>>
vars == <<gameVars, lastReply, otherVars>>

Players == {"anna", "bram"}
NoPlayer == ""
NoColor == ""
NoResult == [type |-> "", winner |-> ""]
Colors == {"white", "black"}

getPlayerColor(playerId) ==
    IF whitePlayer = playerId THEN "white"
    ELSE IF blackPlayer = playerId THEN "black"
    ELSE NoColor

isFull == whitePlayer # NoPlayer /\ blackPlayer # NoPlayer

\* the valid moves validateMove compares the submit with
ValidMoves(move) ==
    IF move.moveType \in UnklikTypes
    THEN UnklikValidMoves(board, move.from[1], move.from[2], move.unklikIndex,
                          castlingRights, enPassantTarget, movedPawns)
    ELSE getCombinedMoves(board, move.from[1], move.from[2],
                          board[move.from[1]][move.from[2]], castlingRights,
                          enPassantTarget, movedPawns, -1)

\* validateMove: the error of the first failed check, or valid
validateMove(playerId, move) ==
    LET playerColor == getPlayerColor(playerId)
        fromSquare == board[move.from[1]][move.from[2]]
        isWhite == isWhitePiece(fromSquare[1])
        reject(e) == [valid |-> FALSE, error |-> e]
    IN  IF playerColor = NoColor THEN reject("Player not in game")
        ELSE IF playerColor # currentTurn THEN reject("Not your turn")
        ELSE IF gameOver THEN reject("Game is over")
        ELSE IF ~gameStarted THEN reject("Game has not started")
        ELSE IF Len(fromSquare) = 0 THEN reject("No pieces on source square")
        ELSE IF (isWhite /\ currentTurn # "white") \/ (~isWhite /\ currentTurn # "black")
        THEN reject("Not your pieces")
        ELSE IF /\ move.moveType \in UnklikTypes
                /\ (move.unklikIndex < 0 \/ move.unklikIndex >= Len(fromSquare))
        THEN reject("Invalid unklik index")
        ELSE IF ~Matches(ValidMoves(move), move.to[1], move.to[2], move.moveType)
        THEN reject("Invalid move")
        ELSE [valid |-> TRUE, error |-> ""]

\* the session's position after the move's executor, updateCastlingRights and the
\* movedPawns update
Executed(move) ==
    LET fromRow == move.from[1]
        fromCol == move.from[2]
        toRow == move.to[1]
        toCol == move.to[2]
        moveType == move.moveType
        pieces == board[fromRow][fromCol]
        done ==
            IF IsCastle(moveType)
            THEN LET x == executeCastling(board, castlingRights, currentTurn, fromRow,
                                          fromCol, toRow, toCol, moveType)
                 IN  [board |-> x.board, castlingRights |-> x.castlingRights,
                      enPassantTarget |-> <<>>]
            ELSE IF moveType \in {"en-passant", "en-passant-unklik"}
            THEN [board |-> executeEnPassant(board, fromRow, fromCol, toRow, toCol,
                                             pieces, moveType, move.unklikIndex),
                  castlingRights |-> castlingRights, enPassantTarget |-> <<>>]
            ELSE IF moveType \in {"unklik", "unklik-klik"}
            THEN [board |-> executeUnklik(board, fromRow, fromCol, toRow, toCol, pieces,
                                          moveType, move.unklikIndex, move.promoteTo),
                  castlingRights |-> castlingRights, enPassantTarget |-> <<>>]
            ELSE executeNormalMove(board, castlingRights, fromRow, fromCol, toRow, toCol,
                                   pieces, moveType, move.promoteTo)
    IN  [board |-> done.board,
         castlingRights |-> updateCastlingRights(done.castlingRights, fromRow, fromCol,
                                                 toRow, toCol),
         enPassantTarget |-> done.enPassantTarget,
         movedPawns |-> movedPawns \cup PawnsOf(pieces)]

\* checkGameEnd naming the side without a move as the winner of a checkmate
checkGameEndWinnerToMove(b, turn, rights, target, moved) ==
    LET inCheck == isInCheck(b, turn)
        hasLegal == hasLegalMoves(b, turn, rights, target, moved)
    IN  IF ~hasLegal
        THEN IF inCheck THEN [type |-> "checkmate", winner |-> turn]
             ELSE [type |-> "stalemate", winner |-> ""]
        ELSE NoResult

\* checkGameEnd: the result the position ends with for the side to move, or NoResult
checkGameEnd(b, turn, rights, target, moved) ==
    LET inCheck == isInCheck(b, turn)
        hasLegal == hasLegalMoves(b, turn, rights, target, moved)
    IN  IF ~hasLegal
        THEN IF inCheck THEN [type |-> "checkmate", winner |-> Opp(turn)]
             ELSE [type |-> "stalemate", winner |-> ""]
        ELSE NoResult

(***************************************************************************)
(* The lines of play.  Squares are written file and rank, as                *)
(* coordToNotation prints them.                                            *)
(***************************************************************************)
Sq(file, rank) ==
    <<8 - rank,
      CASE file = "a" -> 0 [] file = "b" -> 1 [] file = "c" -> 2 [] file = "d" -> 3
        [] file = "e" -> 4 [] file = "f" -> 5 [] file = "g" -> 6 [] file = "h" -> 7>>

Submit(from, to, moveType, unklikIndex, promoteTo) ==
    [from |-> from, to |-> to, moveType |-> moveType, unklikIndex |-> unklikIndex,
     promoteTo |-> promoteTo]
Normal(from, to) == Submit(from, to, "normal", -1, NoPiece)
\* no submit: the value of the history before the first committed move
NoSubmit == Submit(<<-1, -1>>, <<-1, -1>>, NoType, -1, NoPiece)
Klik(from, to) == Submit(from, to, "klik", -1, NoPiece)
Unklik(from, to, unklikIndex) == Submit(from, to, "unklik", unklikIndex, NoPiece)

\* 1.f3 e5 2.g4 Qh4: the shortest mate
FoolsMate ==
    << {Normal(Sq("f", 2), Sq("f", 3)), Normal(Sq("f", 2), Sq("f", 5))},
       {Normal(Sq("e", 7), Sq("e", 5))},
       {Normal(Sq("g", 2), Sq("g", 4))},
       {Normal(Sq("d", 8), Sq("h", 4)), Normal(Sq("d", 8), Sq("g", 5))},
       {Normal(Sq("e", 1), Sq("f", 2)), Unklik(Sq("e", 1), Sq("f", 2), 0)} >>

Promote(from, to, promoteTo) == Submit(from, to, "normal", -1, promoteTo)
Castle(from, to, moveType) == Submit(from, to, moveType, -1, NoPiece)

\* the h-pawn walks to g7 and takes on h8 or f8, with the promoteTo values a client
\* may send: pieces of either colour, a pawn identity, or none
PromotionLine ==
    << {Normal(Sq("h", 2), Sq("h", 4))},
       {Normal(Sq("a", 7), Sq("a", 6))},
       {Normal(Sq("h", 4), Sq("h", 5))},
       {Normal(Sq("a", 6), Sq("a", 5))},
       {Normal(Sq("h", 5), Sq("h", 6))},
       {Normal(Sq("a", 5), Sq("a", 4))},
       {Normal(Sq("h", 6), Sq("g", 7))},
       {Normal(Sq("a", 4), Sq("a", 3))},
       {Promote(Sq("g", 7), to, promoteTo) :
            to \in {Sq("h", 8), Sq("f", 8)},
            promoteTo \in {"Q", "N", "K", "q", "p7", NoPiece}},
       {Normal(Sq("a", 3), Sq("b", 2)), Normal(Sq("e", 8), Sq("f", 8))} >>

\* the king leaves e1 as piece 0 of its own square, a knight kliks onto f2, and the
\* king castles from e2
KingUnklikLine ==
    << {Normal(Sq("e", 2), Sq("e", 3))},
       {Normal(Sq("a", 7), Sq("a", 6))},
       {Unklik(Sq("e", 1), Sq("e", 2), 0), Normal(Sq("e", 1), Sq("e", 2))},
       {Normal(Sq("a", 6), Sq("a", 5))},
       {Normal(Sq("g", 1), Sq("h", 3))},
       {Normal(Sq("a", 5), Sq("a", 4))},
       {Klik(Sq("h", 3), Sq("f", 2)), Normal(Sq("h", 3), Sq("f", 4))},
       {Normal(Sq("a", 4), Sq("a", 3))},
       {Castle(Sq("e", 2), Sq("g", 1), "castle-k-klik"),
        Castle(Sq("e", 2), Sq("g", 1), "castle-k")} >>

\* 1.f3 e6 2.g4 a6 3.Nh3 a5 4.Nf4 Qh4: check on e1 with g1 empty and h1 at home
KnightAwayMate ==
    << {Normal(Sq("f", 2), Sq("f", 3))},
       {Normal(Sq("e", 7), Sq("e", 6))},
       {Normal(Sq("g", 2), Sq("g", 4))},
       {Normal(Sq("a", 7), Sq("a", 6))},
       {Normal(Sq("g", 1), Sq("h", 3))},
       {Normal(Sq("a", 6), Sq("a", 5))},
       {Normal(Sq("h", 3), Sq("f", 4))},
       {Normal(Sq("d", 8), Sq("h", 4)), Normal(Sq("d", 8), Sq("f", 6))},
       {Unklik(Sq("e", 1), Sq("g", 1), 0), Castle(Sq("e", 1), Sq("g", 1), "castle-k-klik")} >>

\* white clears g1 and f1 while a black bishop comes to a6; castling is tried with
\* the e-pawn at home and with the diagonal a6-f1 open
CastleLine ==
    << {Normal(Sq("g", 1), Sq("f", 3))},
       {Normal(Sq("b", 7), Sq("b", 6))},
       {Normal(Sq("g", 2), Sq("g", 3)), Castle(Sq("e", 1), Sq("g", 1), "castle-k-klik")},
       {Normal(Sq("c", 8), Sq("a", 6))},
       {Normal(Sq("f", 1), Sq("h", 3)), Normal(Sq("e", 2), Sq("e", 4))},
       {Normal(Sq("a", 6), Sq("b", 7)), Normal(Sq("b", 8), Sq("c", 6))},
       {Normal(Sq("e", 2), Sq("e", 4)), Normal(Sq("f", 1), Sq("h", 3)),
        Castle(Sq("e", 1), Sq("g", 1), "castle-k"),
        Castle(Sq("e", 1), Sq("g", 1), "castle-k-klik")},
       {Normal(Sq("g", 8), Sq("f", 6))},
       {Castle(Sq("e", 1), Sq("g", 1), "castle-k"),
        Castle(Sq("e", 1), Sq("g", 1), "castle-k-klik"),
        Castle(Sq("e", 1), Sq("c", 1), "castle-q")} >>

\* a queen kliks onto the e5 pawn, the king walks to h5 behind it, the black queen
\* waits on a5; then d7-d5 and the capture on d6, en passant or as a plain move
EnPassantChoiceLine ==
    << {Normal(Sq("e", 2), Sq("e", 4))},
       {Normal(Sq("c", 7), Sq("c", 6))},
       {Normal(Sq("e", 4), Sq("e", 5))},
       {Normal(Sq("d", 8), Sq("a", 5))},
       {Normal(Sq("d", 1), Sq("e", 2))},
       {Normal(Sq("b", 8), Sq("a", 6))},
       {Klik(Sq("e", 2), Sq("e", 5))},
       {Normal(Sq("a", 6), Sq("b", 8))},
       {Normal(Sq("e", 1), Sq("e", 2))},
       {Normal(Sq("b", 8), Sq("a", 6))},
       {Normal(Sq("e", 2), Sq("f", 3))},
       {Normal(Sq("a", 6), Sq("b", 8))},
       {Normal(Sq("f", 3), Sq("g", 4))},
       {Normal(Sq("b", 8), Sq("a", 6))},
       {Normal(Sq("g", 4), Sq("h", 5))},
       {Normal(Sq("d", 7), Sq("d", 5))},
       {Submit(Sq("e", 5), Sq("d", 6), moveType, -1, NoPiece) :
            moveType \in {"en-passant", "normal", "en-passant-choice"}}
       \cup {Submit(Sq("e", 5), Sq("d", 6), "en-passant-unklik", 0, NoPiece),
             Unklik(Sq("e", 5), Sq("d", 6), 1)} >>

\* black stacks its pieces on the seventh rank and doubles its pawns on g6 behind a
\* pawn on g5; the white queen takes the rank and stops on f7 with the king on h8
PawnStackLine ==
    << {Normal(Sq("e", 2), Sq("e", 3))},
       {Klik(Sq("a", 8), Sq("a", 7))},
       {Normal(Sq("f", 1), Sq("d", 3))},
       {Klik(Sq("c", 8), Sq("b", 7))},
       {Normal(Sq("d", 3), Sq("g", 6))},
       {Normal(Sq("f", 7), Sq("g", 6))},
       {Normal(Sq("g", 1), Sq("h", 3))},
       {Normal(Sq("g", 6), Sq("g", 5))},
       {Normal(Sq("h", 3), Sq("f", 4))},
       {Klik(Sq("f", 8), Sq("e", 7))},
       {Normal(Sq("f", 4), Sq("g", 6))},
       {Normal(Sq("h", 7), Sq("g", 6))},
       {Normal(Sq("g", 2), Sq("g", 4))},
       {Klik(Sq("g", 7), Sq("g", 6))},
       {Normal(Sq("a", 2), Sq("a", 3))},
       {Klik(Sq("h", 8), Sq("g", 8))},
       {Normal(Sq("b", 2), Sq("b", 3))},
       {Normal(Sq("g", 8), Sq("f", 8))},
       {Normal(Sq("d", 1), Sq("f", 3))},
       {Normal(Sq("f", 8), Sq("f", 7))},
       {Normal(Sq("f", 3), Sq("b", 7))},
       {Klik(Sq("d", 8), Sq("c", 7))},
       {Normal(Sq("b", 7), Sq("a", 7))},
       {Klik(Sq("b", 8), Sq("d", 7))},
       {Normal(Sq("a", 7), Sq("c", 7))},
       {Normal(Sq("e", 8), Sq("f", 8))},
       {Normal(Sq("c", 7), Sq("d", 7))},
       {Normal(Sq("f", 8), Sq("g", 8))},
       {Normal(Sq("d", 7), Sq("e", 7))},
       {Normal(Sq("g", 8), Sq("h", 8))},
       {Normal(Sq("e", 7), Sq("f", 7))},
       {Submit(Sq("g", 6), Sq("g", 5), "unklik-klik", unklikIndex, NoPiece) :
            unklikIndex \in {0, 1}}
       \cup {Klik(Sq("g", 6), Sq("g", 5)), Normal(Sq("h", 8), Sq("g", 8)),
             Normal(Sq("g", 5), Sq("g", 4))} >>

\* a bishop kliks onto the rook on h1, the knight leaves g1, and white tries to castle
\* with the stacked rook
RookKlikLine ==
    << {Normal(Sq("g", 2), Sq("g", 3))},
       {Normal(Sq("a", 7), Sq("a", 6))},
       {Normal(Sq("f", 1), Sq("g", 2))},
       {Normal(Sq("a", 6), Sq("a", 5))},
       {Klik(Sq("g", 2), Sq("h", 1))},
       {Normal(Sq("a", 5), Sq("a", 4))},
       {Normal(Sq("g", 1), Sq("f", 3))},
       {Normal(Sq("a", 4), Sq("a", 3))},
       {Castle(Sq("e", 1), Sq("g", 1), moveType) :
            moveType \in {"castle-k", "castle-k-both", "castle-k-choice"}} >>

\* a knight kliks onto the d7 pawn, the stack goes d7-d5 past the pawn on e5, and white
\* takes it en passant
EnPassantStackLine ==
    << {Normal(Sq("e", 2), Sq("e", 4))},
       {Normal(Sq("a", 7), Sq("a", 6))},
       {Normal(Sq("e", 4), Sq("e", 5))},
       {Klik(Sq("b", 8), Sq("d", 7))},
       {Normal(Sq("a", 2), Sq("a", 3))},
       {Normal(Sq("d", 7), Sq("d", 5)), Unklik(Sq("d", 7), Sq("d", 5), 0),
        Unklik(Sq("d", 7), Sq("d", 5), 1)},
       {Submit(Sq("e", 5), Sq("d", 6), "en-passant", -1, NoPiece),
        Normal(Sq("e", 5), Sq("d", 6))} >>

\* the h-pawn takes on g7 and the h1 rook kliks onto it; the stack then tries g8, which
\* only the rook reaches, and h8 and f8, which the pawn reaches
CarriageLine ==
    << {Normal(Sq("h", 2), Sq("h", 4))},
       {Normal(Sq("a", 7), Sq("a", 6))},
       {Normal(Sq("h", 4), Sq("h", 5))},
       {Normal(Sq("a", 6), Sq("a", 5))},
       {Normal(Sq("h", 5), Sq("h", 6))},
       {Normal(Sq("a", 5), Sq("a", 4))},
       {Normal(Sq("h", 6), Sq("g", 7))},
       {Normal(Sq("a", 4), Sq("a", 3))},
       {Normal(Sq("h", 1), Sq("h", 6))},
       {Normal(Sq("b", 8), Sq("c", 6))},
       {Normal(Sq("h", 6), Sq("g", 6))},
       {Normal(Sq("c", 6), Sq("b", 8))},
       {Klik(Sq("g", 6), Sq("g", 7))},
       {Normal(Sq("b", 8), Sq("c", 6))},
       {Promote(Sq("g", 7), to, promoteTo) :
            to \in {Sq("g", 8), Sq("h", 8), Sq("f", 8)}, promoteTo \in {"Q", NoPiece}}
       \cup {Unklik(Sq("g", 7), Sq("g", 8), 1),
             Submit(Sq("g", 7), Sq("h", 8), "unklik", 0, "N")} >>

\* the castling from e2 of the king unklik line puts the h2 pawn onto the pawn and the
\* knight on f2; the three then travel as the knight does: e4, g5, h7, f8
ThreeStackLine ==
    << {Normal(Sq("e", 2), Sq("e", 3))},
       {Normal(Sq("a", 7), Sq("a", 6))},
       {Unklik(Sq("e", 1), Sq("e", 2), 0)},
       {Normal(Sq("a", 6), Sq("a", 5))},
       {Normal(Sq("g", 1), Sq("h", 3))},
       {Normal(Sq("a", 5), Sq("a", 4))},
       {Klik(Sq("h", 3), Sq("f", 2))},
       {Normal(Sq("a", 4), Sq("a", 3))},
       {Castle(Sq("e", 2), Sq("g", 1), "castle-k-klik")},
       {Normal(Sq("b", 8), Sq("c", 6))},
       {Normal(Sq("f", 2), Sq("e", 4))},
       {Normal(Sq("c", 6), Sq("b", 8))},
       {Normal(Sq("e", 4), Sq("g", 5))},
       {Normal(Sq("b", 8), Sq("c", 6))},
       {Normal(Sq("g", 5), Sq("h", 7))},
       {Normal(Sq("c", 6), Sq("b", 8))},
       {Normal(Sq("h", 7), Sq("f", 8)), Promote(Sq("h", 7), Sq("f", 8), "Q")} >>

\* the h-pawn takes on g7, the g-pawn walks up and kliks onto it, and the two pawns
\* take on h8 or f8 together, or one of them alone
PawnPairLine ==
    << {Normal(Sq("h", 2), Sq("h", 4))},
       {Normal(Sq("a", 7), Sq("a", 6))},
       {Normal(Sq("h", 4), Sq("h", 5))},
       {Normal(Sq("a", 6), Sq("a", 5))},
       {Normal(Sq("h", 5), Sq("h", 6))},
       {Normal(Sq("a", 5), Sq("a", 4))},
       {Normal(Sq("h", 6), Sq("g", 7))},
       {Normal(Sq("a", 4), Sq("a", 3))},
       {Normal(Sq("g", 2), Sq("g", 4))},
       {Normal(Sq("b", 8), Sq("c", 6))},
       {Normal(Sq("g", 4), Sq("g", 5))},
       {Normal(Sq("c", 6), Sq("b", 8))},
       {Normal(Sq("g", 5), Sq("g", 6))},
       {Normal(Sq("b", 8), Sq("c", 6))},
       {Klik(Sq("g", 6), Sq("g", 7))},
       {Normal(Sq("c", 6), Sq("b", 8))},
       {Promote(Sq("g", 7), to, "Q") : to \in {Sq("h", 8), Sq("f", 8)}}
       \cup {Submit(Sq("g", 7), Sq("h", 8), "unklik", unklikIndex, "Q") :
                 unklikIndex \in {0, 1}} >>

\* the e-pawn goes to e3, the queen kliks onto it and carries it back to e2; then the
\* pawn or the queen leaves the stack for e4, d3 or g4, and the pawns try to advance
\* two squares or to klik onto the queen, straight and diagonally
TransportLine ==
    << {Normal(Sq("e", 2), Sq("e", 3))},
       {Normal(Sq("a", 7), Sq("a", 6))},
       {Normal(Sq("d", 1), Sq("e", 2))},
       {Normal(Sq("a", 6), Sq("a", 5))},
       {Klik(Sq("e", 2), Sq("e", 3))},
       {Normal(Sq("a", 5), Sq("a", 4))},
       {Normal(Sq("e", 3), Sq("e", 2))},
       {Normal(Sq("a", 4), Sq("a", 3))},
       {Unklik(Sq("e", 2), Sq("e", 4), 0), Unklik(Sq("e", 2), Sq("e", 4), 1),
        Unklik(Sq("e", 2), Sq("d", 3), 1), Unklik(Sq("e", 2), Sq("g", 4), 1),
        Normal(Sq("e", 2), Sq("e", 4))},
       {Normal(Sq("b", 8), Sq("c", 6))},
       {Normal(Sq("e", 2), Sq("e", 4)), Klik(Sq("e", 2), Sq("e", 4)),
        Normal(Sq("e", 2), Sq("e", 3)), Klik(Sq("g", 2), Sq("g", 4)),
        Klik(Sq("d", 2), Sq("d", 3)), Klik(Sq("e", 2), Sq("d", 3)),
        Klik(Sq("c", 2), Sq("d", 3))} >>

\* the knight kliks onto the f2 pawn and leaves it again; then the pawn, which never
\* moved, tries f2-f4
CompanionLeavesLine ==
    << {Normal(Sq("g", 1), Sq("h", 3))},
       {Normal(Sq("a", 7), Sq("a", 6))},
       {Klik(Sq("h", 3), Sq("f", 2))},
       {Normal(Sq("a", 6), Sq("a", 5))},
       {Unklik(Sq("f", 2), Sq("h", 3), 1), Unklik(Sq("f", 2), Sq("f", 3), 0)},
       {Normal(Sq("a", 5), Sq("a", 4))},
       {Normal(Sq("f", 2), Sq("f", 4)), Normal(Sq("f", 2), Sq("f", 3))} >>

\* a queen kliks onto the e5 pawn and the king walks to c4; d7-d5 then gives check, and
\* the stack answers on d6, taking the checking pawn en passant or not
EnPassantEscapeLine ==
    << {Normal(Sq("e", 2), Sq("e", 4))},
       {Normal(Sq("a", 7), Sq("a", 6))},
       {Normal(Sq("e", 4), Sq("e", 5))},
       {Normal(Sq("a", 6), Sq("a", 5))},
       {Normal(Sq("d", 1), Sq("e", 2))},
       {Normal(Sq("a", 5), Sq("a", 4))},
       {Klik(Sq("e", 2), Sq("e", 5))},
       {Normal(Sq("a", 4), Sq("a", 3))},
       {Normal(Sq("e", 1), Sq("e", 2))},
       {Normal(Sq("b", 8), Sq("a", 6))},
       {Normal(Sq("e", 2), Sq("d", 3))},
       {Normal(Sq("a", 6), Sq("b", 8))},
       {Normal(Sq("d", 3), Sq("c", 4))},
       {Normal(Sq("d", 7), Sq("d", 5))},
       {Submit(Sq("e", 5), Sq("d", 6), moveType, -1, NoPiece) :
            moveType \in {"en-passant", "normal", "en-passant-choice"}}
       \cup {Submit(Sq("e", 5), Sq("d", 6), "en-passant-unklik", 0, NoPiece),
             Normal(Sq("c", 4), Sq("b", 3))} >>

Book == << FoolsMate, PromotionLine, KingUnklikLine, KnightAwayMate, CastleLine,
           EnPassantChoiceLine, PawnStackLine, RookKlikLine, EnPassantStackLine,
           CarriageLine, ThreeStackLine, PawnPairLine, TransportLine,
           CompanionLeavesLine, EnPassantEscapeLine >>

\* the longest game played, and the plies the clients play freely in the open line
MaxPlies == 32
FreePlies == 1

\* every submit that names a valid move of its source square, whole square or one
\* piece, whoever owns the square
FreeSubmits ==
    UNION {LET fromSquare == board[from[1]][from[2]]
           IN  IF Len(fromSquare) = 0 THEN {Normal(from, Sq("e", 4))}
               ELSE {Submit(from, <<m[1], m[2]>>, m[3], -1, NoPiece) :
                         m \in getCombinedMoves(board, from[1], from[2], fromSquare,
                                                castlingRights, enPassantTarget,
                                                movedPawns, -1)}
                    \cup UNION {{Submit(from, <<m[1], m[2]>>, m[3], i, NoPiece) :
                                     m \in UnklikValidMoves(board, from[1], from[2], i,
                                                            castlingRights,
                                                            enPassantTarget, movedPawns)} :
                                i \in 0..(Len(fromSquare) - 1)} :
           from \in {<<r, c>> : r \in Idx, c \in Idx}}

\* the submits the clients may send at the present length of the game: line 0 is
\* open play, the others follow the book
Submits ==
    IF Len(moveHistory) >= MaxPlies THEN {}
    ELSE IF book = 0
    THEN (IF Len(moveHistory) < FreePlies THEN FreeSubmits ELSE {})
    ELSE IF Len(moveHistory) < Len(Book[book]) THEN Book[book][Len(moveHistory) + 1]
    ELSE {}

\* no submit is watched
NoReply == [player |-> NoPlayer, move |-> NoSubmit, error |-> ""]

\* the other parts of the program at rest
IdleReply == lastReply = NoReply
\* the lobby and the game service of the server before anybody has connected: the users
\* of the lobby with their status, pendingChallenges, pendingRematches, the accepts that
\* wait for the colour statistics, the sessions of the game service and its playerToGame
\* (0: no entry); and a record of what happened to each challenge: the games created from
\* it, how it was closed, and whether an accept came after that
NoLobby ==
    [users |-> [p \in Players |-> "offline"],
     pendingChallenges |-> {}, pendingRematches |-> {}, accepting |-> {},
     sessions |-> <<>>, playerToGame |-> [p \in Players |-> 0],
     challenges |-> <<>>, rematches |-> 0]
IdleLobby == lobby = NoLobby
\* no reply of the engine has been applied yet
NoApplied ==
    [requested |-> <<0, 0>>, applied |-> <<0, 0>>, turn |-> NoColor, engineColor |-> NoColor,
     mover |-> NoColor, afterEngine |-> FALSE]

\* engineState as the module creates it, with the timers set by finishMove, the requests
\* in flight and a record of what happened: the number of games started, who made the
\* last move of the game, and the last reply that moved a piece
NoEngine ==
    [active |-> FALSE, engineColor |-> "black", thinking |-> FALSE, timers |-> 0,
     requests |-> {}, games |-> 0, lastBy |-> "", applied |-> NoApplied]

IdleEngine == engine = NoEngine
\* premoveState of each player's client as the premove module creates it: no premove stored;
\* with the timer set by onMoveMade and a record of the last premove that was sent
NoPremove ==
    [stored |-> NoSubmit, timer |-> FALSE,
     executed |-> [stored |-> NoSubmit, sent |-> NoSubmit, legal |-> FALSE]]
IdlePremove == premove = [p \in Players |-> NoPremove]
\* analysisState as the analysis module creates it
NoAnalysis == [isActive |-> FALSE, moveIndex |-> -1, savedMoves |-> <<>>, boardStates |-> <<>>]
IdleAnalysis == analysis = NoAnalysis
Idle == IdleReply /\ IdleLobby /\ IdleEngine /\ IdlePremove /\ IdleAnalysis

(***************************************************************************)
(* Initial state: the session as its constructor leaves it, registered by  *)
(* GameService.createGame                                                  *)
(***************************************************************************)
InitGame ==
    /\ board = createInitialBoard
    /\ currentTurn = "white"
    /\ castlingRights = [white |-> [kingSide |-> TRUE, queenSide |-> TRUE],
                         black |-> [kingSide |-> TRUE, queenSide |-> TRUE]]
    /\ enPassantTarget = <<>>
    /\ movedPawns = {}
    /\ moveHistory = <<>>
    /\ whitePlayer = NoPlayer
    /\ blackPlayer = NoPlayer
    /\ gameStarted = FALSE
    /\ gameOver = FALSE
    /\ result = NoResult
    /\ onGameEnd = FALSE
    /\ activeColor = NoColor
    /\ activeSessions = TRUE
    /\ playerToGame = {}
    /\ kingMoved = [c \in Colors |-> FALSE]
    /\ rookLeft = [c \in Colors |-> [kingSide |-> FALSE, queenSide |-> FALSE]]
    /\ lastMove = NoSubmit
    /\ before = [board |-> board, castlingRights |-> castlingRights,
                 enPassantTarget |-> enPassantTarget, movedPawns |-> movedPawns]
    /\ book \in 0..Len(Book)

Init == InitGame /\ Idle

\* GameService.getGameByPlayer(playerId) finds the session
getGameByPlayer(playerId) == playerId \in playerToGame /\ activeSessions

\* GameSession.endGame with the seats as they are when it runs; the onGameEnd
\* callback runs GameService.endGame, which unmaps the seated players
endGame(r, white, black) ==
    /\ gameOver' = TRUE
    /\ result' = r
    /\ activeColor' = NoColor
    /\ playerToGame' = IF onGameEnd /\ activeSessions
                       THEN playerToGame \ {white, black}
                       ELSE playerToGame

\* game:create, after createGame: the creator takes the first seat
GameCreate(p) ==
    /\ activeSessions /\ ~isFull /\ whitePlayer = NoPlayer /\ blackPlayer = NoPlayer
    /\ ~gameStarted /\ ~gameOver
    /\ ~getGameByPlayer(p)
    /\ whitePlayer' = p
    /\ playerToGame' = playerToGame \cup {p}
    /\ UNCHANGED <<sessionVars, blackPlayer, flowVars, activeSessions, historyVars, book>>
    /\ UNCHANGED <<lastReply, otherVars>>

\* game:join; a full session is given its callbacks and started
GameJoin(p) ==
    /\ whitePlayer # NoPlayer \/ blackPlayer # NoPlayer \/ ~activeSessions
    /\ UNCHANGED <<lastReply, otherVars>>
    /\ IF getGameByPlayer(p) \/ ~activeSessions \/ isFull \/ gameStarted
       THEN UNCHANGED gameVars
       ELSE /\ IF whitePlayer = NoPlayer
               THEN whitePlayer' = p /\ blackPlayer' = blackPlayer
               ELSE whitePlayer' = whitePlayer /\ blackPlayer' = p
            /\ playerToGame' = playerToGame \cup {p}
            /\ IF whitePlayer' # NoPlayer /\ blackPlayer' # NoPlayer
               THEN /\ onGameEnd' = TRUE
                    /\ gameStarted' = TRUE
                    /\ activeColor' = "white"
               ELSE UNCHANGED <<onGameEnd, gameStarted, activeColor>>
            /\ UNCHANGED <<sessionVars, gameOver, result, activeSessions, historyVars,
                           book>>

\* the history: which kings and corner rooks have moved, the last committed submit
\* and the position it was made in
HistoryAfter(move, newBoard) ==
    LET mover == currentTurn
        rook(c) == IF c = "white" THEN "R" ELSE "r"
        baseRow(c) == IF c = "white" THEN 7 ELSE 0
        gone(c, col) == \/ ~Includes(newBoard[baseRow(c)][col], rook(c))
                        \/ (mover # c /\ move.to = <<baseRow(c), col>>)
        pieces == board[move.from[1]][move.from[2]]
        moving == IF move.moveType \in UnklikTypes
                  THEN <<pieces[move.unklikIndex + 1]>> ELSE pieces
        king(c) == IF c = "white" THEN "K" ELSE "k"
    IN  /\ lastMove' = move
        /\ before' = [board |-> board, castlingRights |-> castlingRights,
                      enPassantTarget |-> enPassantTarget, movedPawns |-> movedPawns]
        /\ kingMoved' = [c \in Colors |-> kingMoved[c] \/ Includes(moving, king(c))]
        /\ rookLeft' = [c \in Colors |->
                            [kingSide |-> rookLeft[c].kingSide \/ gone(c, 7),
                             queenSide |-> rookLeft[c].queenSide \/ gone(c, 0)]]

\* executeMove with its checkGameEnd, for a move that validateMove has passed
CommitMove(move) ==
    LET x == Executed(move)
        turn == Opp(currentTurn)
        end == checkGameEnd(x.board, turn, x.castlingRights, x.enPassantTarget,
                            x.movedPawns)
    IN  /\ board' = x.board
        /\ castlingRights' = x.castlingRights
        /\ enPassantTarget' = x.enPassantTarget
        /\ movedPawns' = x.movedPawns
        /\ moveHistory' = Append(moveHistory, currentTurn)
        /\ currentTurn' = turn
        /\ IF end # NoResult
           THEN endGame(end, whitePlayer, blackPlayer)
           ELSE /\ activeColor' = IF activeColor = NoColor THEN NoColor
                                  ELSE Opp(activeColor)
                /\ UNCHANGED <<gameOver, result, playerToGame>>
        /\ HistoryAfter(move, x.board)
        /\ UNCHANGED <<seatVars, gameStarted, onGameEnd, activeSessions, book>>

\* a game:move handler that runs executeMove's reset of the en passant target before it
\* looks at the validation
GameMoveResetsTarget(p, move) ==
    /\ activeSessions
    /\ getPlayerColor(p) # NoColor
    /\ UNCHANGED otherVars
    /\ IF ~validateMove(p, move).valid
       THEN /\ enPassantTarget' = <<>>
            /\ UNCHANGED <<board, currentTurn, castlingRights, movedPawns, moveHistory,
                           seatVars, flowVars, serviceVars, historyVars, book>>
       ELSE CommitMove(move)

\* game:move on the session: validateMove, then executeMove with its checkGameEnd
GameMoveOn(p, move) ==
    /\ activeSessions
    /\ getPlayerColor(p) # NoColor
    /\ IF ~validateMove(p, move).valid
       THEN UNCHANGED gameVars
       ELSE CommitMove(move)

\* game:move
GameMove(p, move) == GameMoveOn(p, move) /\ UNCHANGED otherVars

\* game:resign
GameResign(p) ==
    /\ activeSessions
    /\ getPlayerColor(p) # NoColor
    /\ UNCHANGED <<lastReply, otherVars>>
    /\ IF gameOver
       THEN UNCHANGED gameVars
       ELSE /\ endGame([type |-> "resignation", winner |-> Opp(getPlayerColor(p))],
                       whitePlayer, blackPlayer)
            /\ UNCHANGED <<sessionVars, seatVars, gameStarted, onGameEnd, activeSessions,
                           historyVars, book>>

\* the socket's disconnect: a game in progress ends, any other session is removed
Disconnect(p) ==
    /\ getGameByPlayer(p)
    /\ LET white == IF whitePlayer = p THEN NoPlayer ELSE whitePlayer
           black == IF whitePlayer # p /\ blackPlayer = p THEN NoPlayer ELSE blackPlayer
       IN  /\ whitePlayer' = white
           /\ blackPlayer' = black
           /\ IF gameStarted /\ ~gameOver
              THEN /\ endGame([type |-> "disconnect",
                               winner |-> IF white # NoPlayer THEN "white"
                                          ELSE IF black # NoPlayer THEN "black" ELSE ""],
                              white, black)
                   /\ UNCHANGED activeSessions
              ELSE /\ playerToGame' = (playerToGame \ {p}) \ {white, black}
                   /\ activeSessions' = FALSE
                   /\ UNCHANGED <<gameOver, result, activeColor>>
    /\ UNCHANGED <<sessionVars, gameStarted, onGameEnd, historyVars, book>>
    /\ UNCHANGED <<lastReply, otherVars>>

\* the clock's tick that finds the active side out of time: stop, then handleTimeout
Timeout ==
    /\ activeColor # NoColor
    /\ endGame([type |-> "timeout", winner |-> Opp(activeColor)], whitePlayer, blackPlayer)
    /\ UNCHANGED <<sessionVars, seatVars, gameStarted, onGameEnd, activeSessions,
                   historyVars, book>>
    /\ UNCHANGED <<lastReply, otherVars>>

Next ==
    \/ \E p \in Players : GameCreate(p)
    \/ \E p \in Players : GameJoin(p)
    \/ \E p \in Players, move \in Submits : GameMove(p, move) /\ UNCHANGED lastReply
    \/ \E p \in Players : GameResign(p)
    \/ \E p \in Players : Disconnect(p)
    \/ Timeout

Spec == Init /\ [][Next]_vars

\* the session whose clients follow the en passant line
InitEnPassantChoice == Init /\ book = 6
SpecEnPassantChoice == InitEnPassantChoice /\ [][Next]_vars

\* the session that plays the line of the doubled pawns
InitPawnStack == Init /\ book = 7
SpecPawnStack == InitPawnStack /\ [][Next]_vars

\* game:move that finds no session or no seat for the player: the handler's replies
\* before validateMove
GameMoveRefused(p, move) ==
    /\ ~activeSessions \/ getPlayerColor(p) = NoColor
    /\ lastReply' = [player |-> p, move |-> move,
                     error |-> IF ~activeSessions THEN "Game not found"
                               ELSE "You are not in this game"]
    /\ UNCHANGED <<gameVars, otherVars>>

\* game:move with the reply to the submitting socket: the error of game:move-rejected,
\* or none when the move was made
GameMoveWatched(p, move) ==
    /\ GameMove(p, move)
    /\ lastReply' = [player |-> p, move |-> move,
                     error |-> IF validateMove(p, move).valid THEN ""
                               ELSE validateMove(p, move).error]

\* the submits of the watched session: those of the line of play, one that names the
\* second piece of g1, one from a5, and a step of black's h-pawn
WatchedSubmits ==
    Submits \cup {Unklik(Sq("g", 1), Sq("f", 3), 1), Normal(Sq("a", 5), Sq("a", 4)),
                  Normal(Sq("h", 7), Sq("h", 6))}

\* the session with the replies to its submits watched; the clients follow the shortest
\* mate or the en passant line
NextReplies ==
    \/ \E p \in Players : GameCreate(p)
    \/ \E p \in Players : GameJoin(p)
    \/ \E p \in Players, move \in WatchedSubmits : GameMoveWatched(p, move)
    \/ \E p \in Players, move \in WatchedSubmits : GameMoveRefused(p, move)
    \/ \E p \in Players : GameResign(p)
    \/ \E p \in Players : Disconnect(p)
    \/ Timeout
InitReplies == Init /\ book \in {1, 6}
SpecReplies == InitReplies /\ [][NextReplies]_vars

(***************************************************************************)
(* What a client can get accepted in the present position: validateMove    *)
(* from its look at the source square on, for the side to move             *)
(***************************************************************************)
Squares == {<<r, c>> : r \in Idx, c \in Idx}

\* the checks of validateMove that depend on the position alone
AcceptedInPosition(move) ==
    LET fromSquare == board[move.from[1]][move.from[2]]
    IN  /\ Len(fromSquare) > 0
        /\ isWhitePiece(fromSquare[1]) = (currentTurn = "white")
        /\ move.moveType \in UnklikTypes =>
               (move.unklikIndex >= 0 /\ move.unklikIndex < Len(fromSquare))
        /\ Matches(ValidMoves(move), move.to[1], move.to[2], move.moveType)

\* the submits from a square that name a valid move of it, whole square or one piece
CandidateSubmits(from) ==
    LET fromSquare == board[from[1]][from[2]]
    IN  IF Len(fromSquare) = 0 THEN {}
        ELSE {Submit(from, <<m[1], m[2]>>, m[3], -1, NoPiece) :
                  m \in getCombinedMoves(board, from[1], from[2], fromSquare,
                                         castlingRights, enPassantTarget, movedPawns, -1)}
             \cup UNION {{Submit(from, <<m[1], m[2]>>, m[3], i, NoPiece) :
                              m \in UnklikValidMoves(board, from[1], from[2], i,
                                                     castlingRights, enPassantTarget,
                                                     movedPawns)} :
                         i \in 0..(Len(fromSquare) - 1)}

\* some submit would pass validateMove's look at the position
SomeAcceptedInPosition ==
    \E from \in Squares : \E move \in CandidateSubmits(from) : AcceptedInPosition(move)

(***************************************************************************)
(* Properties                                                              *)
(***************************************************************************)
CountPiece(piece) ==
    Cardinality({<<r, c, i>> \in Idx \X Idx \X (1..3) :
                     i <= Len(board[r][c]) /\ board[r][c][i] = piece})

\* the side that made the last committed move
Mover == moveHistory[Len(moveHistory)]

\* C1: after every move validateMove accepted and executeMove committed, the king of
\* the side that moved is not attacked by an opposing piece.
C1_MoverKingNotAttacked ==
    Len(moveHistory) > 0 => ~isInCheck(board, Mover)

\* C2: after every committed move the board holds exactly one white king and exactly
\* one black king, whatever promotion piece came with the submit.
C2_OneKingPerColour ==
    Len(moveHistory) > 0 => (CountPiece("K") = 1 /\ CountPiece("k") = 1)

\* C3: every square holds at most two pieces, and a square with two pieces holds no
\* king and two pieces of one colour.
C3_StackShape ==
    \A r \in Idx, c \in Idx :
        /\ Len(board[r][c]) <= 2
        /\ Len(board[r][c]) = 2 =>
               /\ ~SomeType(board[r][c], "k")
               /\ isWhitePiece(board[r][c][1]) = isWhitePiece(board[r][c][2])

\* C4: when a committed move ended the game as checkmate or stalemate, the side to
\* move has no move of any kind that validateMove would accept in that position.
C4_TerminalHasNoAcceptedMove ==
    (Len(moveHistory) > 0 /\ result.type \in {"checkmate", "stalemate"})
        => ~SomeAcceptedInPosition

\* C5: whenever a started session is not over, the player to move has at least one
\* submit (from, to, type, unklik index) that validateMove accepts
C5_SomeSubmitAccepted ==
    (gameStarted /\ ~gameOver) =>
        \E p \in Players : \E from \in Squares : \E move \in CandidateSubmits(from) :
            validateMove(p, move).valid

C7_TerminalAbsorbs ==
    [][gameOver => (result' = result /\ gameOver' = gameOver /\ board' = board)]_vars

\* C8: a session that is over has been started: nothing ends a session in Setup.
C8_OverImpliesStarted ==
    gameOver => gameStarted

\* C9: a castling right that is still set means the king of that colour has never
\* moved and the corner's original rook has never left its square.
C9_RightsMeanUnmoved ==
    \A c \in Colors :
        /\ castlingRights[c].kingSide => (~kingMoved[c] /\ ~rookLeft[c].kingSide)
        /\ castlingRights[c].queenSide => (~kingMoved[c] /\ ~rookLeft[c].queenSide)

\* the castling types a client may submit
CastleTypes == CastleKTypes \cup CastleQTypes

\* the square next to the king's start on the side it castles to
CrossingSquare(from, moveType) ==
    <<from[1], IF moveType \in CastleKTypes THEN from[2] + 1 ELSE from[2] - 1>>

AttackedNow(sq) ==
    /\ OnBoard(sq[1], sq[2])
    /\ isSquareAttacked(board, sq[1], sq[2], currentTurn = "white")

CastledPosition ==
    /\ Len(moveHistory) > 0
    /\ \E r \in {0, 7} :
           /\ Includes(board[r][6], IF r = 7 THEN "K" ELSE "k")
           /\ Includes(board[r][5], IF r = 7 THEN "R" ELSE "r")

\* the pieces of a square as a set
PiecesOn(square) == {square[i] : i \in 1..Len(square)}

\* C11: a committed castling has the type the occupancy of the corner and of the
\* rook's landing square fixes (rook alone and landing square empty: plain; rook
\* alone and one own piece on the landing square: klik; rook stacked and landing
\* square empty: rook only or both; rook stacked and one own piece on the landing
\* square: unklik-klik), the rook and its companion end where the type says, and
\* the king ends on the g or c file of its base row.
C11_CastlingByOccupancy ==
    (Len(moveHistory) > 0 /\ IsCastle(lastMove.moveType)) =>
        LET isWhite == Mover = "white"
            moveType == lastMove.moveType
            kingSide == moveType \in CastleKTypes
            side == IF kingSide THEN "k" ELSE "q"
            baseRow == IF isWhite THEN 7 ELSE 0
            rookCol == IF kingSide THEN 7 ELSE 0
            landCol == IF kingSide THEN 5 ELSE 3
            kingCol == IF kingSide THEN 6 ELSE 2
            rook == IF isWhite THEN "R" ELSE "r"
            king == IF isWhite THEN "K" ELSE "k"
            rookSquare == before.board[baseRow][rookCol]
            landing == before.board[baseRow][landCol]
            corner == PiecesOn(board[baseRow][rookCol])
            landed == PiecesOn(board[baseRow][landCol])
        IN  /\ board[baseRow][kingCol] = <<king>>
            /\ Includes(rookSquare, rook)
            /\ CASE Len(rookSquare) = 1 /\ Len(landing) = 0 ->
                        /\ moveType = "castle-" \o side
                        /\ landed = {rook} /\ corner = {}
                 [] Len(rookSquare) = 1 /\ Len(landing) = 1 ->
                        /\ moveType = "castle-" \o side \o "-klik"
                        /\ landed = {rook} \cup PiecesOn(landing) /\ corner = {}
                 [] Len(rookSquare) = 2 /\ Len(landing) = 0 ->
                        \/ /\ moveType = "castle-" \o side
                           /\ landed = {rook} /\ corner = PiecesOn(rookSquare) \ {rook}
                        \/ /\ moveType = "castle-" \o side \o "-both"
                           /\ landed = PiecesOn(rookSquare) /\ corner = {}
                 [] Len(rookSquare) = 2 /\ Len(landing) = 1 ->
                        /\ moveType = "castle-" \o side \o "-unklik-klik"
                        /\ landed = {rook} \cup PiecesOn(landing)
                        /\ corner = PiecesOn(rookSquare) \ {rook}
                 [] OTHER -> FALSE

\* the corner squares of a colour's base row and the castling side each belongs to
Corners(color) ==
    LET baseRow == IF color = "white" THEN 7 ELSE 0
    IN  {[square |-> <<baseRow, 7>>, side |-> "kingSide"],
         [square |-> <<baseRow, 0>>, side |-> "queenSide"]}

\* the last committed move was a klik of a non-rook piece of the mover onto the
\* mover's corner rook, alone on its corner with the corner's right set
KlikOntoCornerRook(corner) ==
    /\ Len(moveHistory) > 0
    /\ lastMove.moveType \in {"klik", "unklik-klik"}
    /\ lastMove.to = corner.square
    /\ before.board[corner.square[1]][corner.square[2]]
           = <<IF Mover = "white" THEN "R" ELSE "r">>
    /\ before.castlingRights[Mover][corner.side]

\* C12: a klik of a friendly piece onto an unmoved corner rook leaves that corner's
\* castling right set.
C12_KlikKeepsRight ==
    \A corner \in Corners("white") \cup Corners("black") :
        KlikOntoCornerRook(corner) => castlingRights[Mover][corner.side]

\* the pieces of a square that belong to the opponent of the side that moved last
EnemyOn(square) ==
    {piece \in PiecesOn(square) : isWhitePiece(piece) # (Mover = "white")}

\* the pieces the last committed move took from its source square
LastMoving ==
    LET pieces == before.board[lastMove.from[1]][lastMove.from[2]]
    IN  IF lastMove.moveType \in {"unklik", "unklik-klik", "en-passant-unklik"}
        THEN <<pieces[lastMove.unklikIndex + 1]>> ELSE pieces

\* the last committed move landed on a square that held opposing pieces
LastMoveCaptured ==
    /\ Len(moveHistory) > 0
    /\ lastMove.moveType \in {"normal", "unklik"}
    /\ EnemyOn(before.board[lastMove.to[1]][lastMove.to[2]]) # {}

\* the last committed move was an en passant capture
LastMoveEnPassant ==
    /\ Len(moveHistory) > 0
    /\ lastMove.moveType \in {"en-passant", "en-passant-unklik"}

\* the square behind the destination of an en passant capture
CaptureSquare ==
    <<IF Mover = "white" THEN lastMove.to[1] + 1 ELSE lastMove.to[1] - 1, lastMove.to[2]>>

\* C13: after a capturing move, of the whole square or of one unkliked piece, the
\* destination holds nothing but what arrived (the moving pieces, or the promotion piece
\* sent with the move): every opposing piece that stood there is gone; and an en passant
\* capture leaves the square behind its destination empty.
C13_CaptureRemovesAll ==
    /\ LastMoveCaptured =>
           PiecesOn(board[lastMove.to[1]][lastMove.to[2]])
               \subseteq PiecesOn(LastMoving) \cup {lastMove.promoteTo}
    /\ LastMoveEnPassant => board[CaptureSquare[1]][CaptureSquare[2]] = <<>>

\* a whole stack of two opposing pieces was captured
C13_WitnessCapture ==
    /\ LastMoveCaptured
    /\ Len(before.board[lastMove.to[1]][lastMove.to[2]]) = 2
    /\ board[lastMove.to[1]][lastMove.to[2]] = LastMoving

\* an en passant capture took a stack of two
C13_Witness ==
    /\ LastMoveEnPassant
    /\ Len(before.board[CaptureSquare[1]][CaptureSquare[2]]) = 2

\* the last committed move took a whole stack holding a pawn to the mover's promotion rank
StackReachedPromotionRank ==
    /\ Len(moveHistory) > 0
    /\ lastMove.moveType \notin {"unklik", "unklik-klik", "en-passant-unklik"}
    /\ Len(LastMoving) >= 2
    /\ SomePawn(LastMoving)
    /\ lastMove.to[1] = (IF Mover = "white" THEN 0 ELSE 7)

\* the destination of the last move is a move of a pawn of the moving stack, generated
\* for the pawn itself in the position the move was made in
PawnReaches ==
    \E i \in 1..Len(LastMoving) :
        /\ isPawn(LastMoving[i])
        /\ LET moves == getPieceMoves(before.board, lastMove.from[1], lastMove.from[2],
                                      LastMoving[i], before.castlingRights,
                                      before.enPassantTarget, before.movedPawns)
           IN  \E k \in 1..Len(moves) : <<moves[k][1], moves[k][2]>> = lastMove.to

\* C14: a committed move of a whole stack that holds a pawn ends on the promotion rank
\* only on a square the pawn's own moves reach; the companion's geometry never carries
\* the pawn there.
C14_NoCarriageToPromotionRank ==
    StackReachedPromotionRank => PawnReaches

\* a pawn of some colour stands on the rank where it promotes
PawnOnPromotionRank ==
    \E c \in Idx :
        \/ \E i \in 1..Len(board[0][c]) :
               isPawn(board[0][c][i]) /\ isWhitePiece(board[0][c][i])
        \/ \E i \in 1..Len(board[7][c]) :
               isPawn(board[7][c][i]) /\ ~isWhitePiece(board[7][c][i])

\* C15: after every committed move no white pawn stands on the eighth rank and no
\* black pawn on the first.
C15_NoPawnOnPromotionRank ==
    Len(moveHistory) > 0 => ~PawnOnPromotionRank

\* the last committed move put its promoteTo piece on the board: a pawn arrived on the
\* mover's promotion rank by a normal, klik or unklik move and a piece came with it
LastMovePromoted ==
    /\ Len(moveHistory) > 0
    /\ ~IsCastle(lastMove.moveType)
    /\ lastMove.moveType \notin {"en-passant", "en-passant-unklik"}
    /\ SomePawn(LastMoving)
    /\ lastMove.to[1] = (IF Mover = "white" THEN 0 ELSE 7)
    /\ lastMove.promoteTo # NoPiece

\* the pieces a pawn of the colour may become
PromotionPieces(color) ==
    IF color = "white" THEN {"Q", "R", "B", "N"} ELSE {"q", "r", "b", "n"}

\* C16: the piece a committed promotion puts on the board is a queen, rook, bishop or
\* knight of the mover's colour.
C16_PromotionPieceLegal ==
    LastMovePromoted => lastMove.promoteTo \in PromotionPieces(Mover)

\* the number of pieces of a colour on a board
PieceCount(b, color) ==
    Cardinality(UNION {{<<r, c, i>> : i \in {k \in 1..Len(b[r][c]) :
                                              isWhitePiece(b[r][c][k]) = (color = "white")}} :
                       r \in Idx, c \in Idx})

\* the last committed move promoted with a piece the rules allow
LastMovePromotedLegally ==
    LastMovePromoted /\ lastMove.promoteTo \in PromotionPieces(Mover)

\* C17: a promotion with a legal piece replaces one pawn and nothing else: the mover has
\* as many pieces after it as before, the destination holds the promoted piece, every
\* companion that came along and every resident it klikked onto, and after an unklik
\* the source square holds the companion that stayed.
C17_PromotionReplacesOnePawn ==
    LastMovePromotedLegally =>
        LET from == before.board[lastMove.from[1]][lastMove.from[2]]
            source == board[lastMove.from[1]][lastMove.from[2]]
            destination == board[lastMove.to[1]][lastMove.to[2]]
            resident == IF lastMove.moveType \in {"klik", "unklik-klik"}
                        THEN before.board[lastMove.to[1]][lastMove.to[2]] ELSE <<>>
        IN  /\ PieceCount(board, Mover) = PieceCount(before.board, Mover)
            /\ Includes(destination, lastMove.promoteTo)
            /\ Len(destination) = Len(LastMoving) + Len(resident)
            /\ PiecesOn(NonPawns(LastMoving)) \cup PiecesOn(resident)
                   \subseteq PiecesOn(destination)
            /\ lastMove.moveType \in UnklikTypes =>
                   source = RemoveAt(from, lastMove.unklikIndex)

\* the square a pawn identity starts the game on
StartSquare(pawn) ==
    CHOOSE square \in Idx \X Idx :
        Includes(createInitialBoard[square[1]][square[2]], pawn)

\* C18: every pawn on the board whose identity is not in movedPawns stands on the square
\* it started the game on.
C18_UnmovedPawnsAtHome ==
    \A r \in Idx, c \in Idx :
        \A i \in 1..Len(board[r][c]) :
            (isPawn(board[r][c][i]) /\ board[r][c][i] \notin movedPawns)
                => <<r, c>> = StartSquare(board[r][c][i])

\* the pieces a submit moves: the whole source square, or the piece at unklikIndex
MovingUnit(move) ==
    LET fromSquare == board[move.from[1]][move.from[2]]
    IN  IF move.moveType \in UnklikTypes
        THEN (IF move.unklikIndex >= 0 /\ move.unklikIndex < Len(fromSquare)
              THEN <<fromSquare[move.unklikIndex + 1]>> ELSE <<>>)
        ELSE fromSquare

\* the submits that advance the pieces of a square two squares straight ahead for the
\* side to move: as a plain move, as a klik, or as an unklik of either piece
DoubleAdvances(from) ==
    LET to == <<IF currentTurn = "white" THEN from[1] - 2 ELSE from[1] + 2, from[2]>>
    IN  IF to \notin Squares THEN {}
        ELSE {Normal(from, to), Klik(from, to)}
             \cup {Submit(from, to, moveType, unklikIndex, NoPiece) :
                       moveType \in UnklikTypes, unklikIndex \in {0, 1}}

\* the moving unit is made of pawns that are all in movedPawns
MovedPawnsOnly(move) ==
    /\ MovingUnit(move) # <<>>
    /\ \A i \in 1..Len(MovingUnit(move)) :
           isPawn(MovingUnit(move)[i]) /\ MovingUnit(move)[i] \in movedPawns

\* C19: in every position, no submit that advances a unit of pawns from movedPawns two
\* squares straight ahead is accepted, whether sent as a plain move, a klik or an unklik,
\* and whatever rank the pawn stands on.
C19_MovedPawnNoDoubleAdvance ==
    \A from \in Squares :
        \A move \in DoubleAdvances(from) :
            MovedPawnsOnly(move) => ~AcceptedInPosition(move)

\* a pawn from movedPawns stands alone on its start rank again with the two squares
\* ahead of it empty: the single step is accepted, the double step is not
C19_Witness ==
    \E from \in Squares :
        LET fromSquare == board[from[1]][from[2]]
            dir == IF currentTurn = "white" THEN -1 ELSE 1
        IN  /\ from[1] = (IF currentTurn = "white" THEN 6 ELSE 1)
            /\ Len(fromSquare) = 1
            /\ MovedPawnsOnly(Normal(from, from))
            /\ Len(board[from[1] + dir][from[2]]) = 0
            /\ Len(board[from[1] + 2 * dir][from[2]]) = 0
            /\ AcceptedInPosition(Normal(from, <<from[1] + dir, from[2]>>))
            /\ ~AcceptedInPosition(Normal(from, <<from[1] + 2 * dir, from[2]>>))

\* C20: a committed move adds to movedPawns only pawns of the unit that changed square:
\* a pawn that stays behind when its companion unkliks away is not added.
C20_OnlyMovingPawnsMarked ==
    Len(moveHistory) > 0 =>
        (movedPawns \ before.movedPawns) \subseteq PiecesOn(LastMoving)

\* the last committed move was a two-square straight advance from the mover's start rank
\* onto an empty square, with a never-moved pawn in the unit that moved
LastMoveDoublePush ==
    /\ Len(moveHistory) > 0
    /\ ~IsCastle(lastMove.moveType)
    /\ lastMove.from[2] = lastMove.to[2]
    /\ lastMove.from[1] = (IF Mover = "white" THEN 6 ELSE 1)
    /\ lastMove.to[1] = (IF Mover = "white" THEN 4 ELSE 3)
    /\ before.board[lastMove.to[1]][lastMove.to[2]] = <<>>
    /\ \E i \in 1..Len(LastMoving) :
           isPawn(LastMoving[i]) /\ LastMoving[i] \notin before.movedPawns

\* the square a double push passes over
PassedSquare == <<(lastMove.from[1] + lastMove.to[1]) \div 2, lastMove.to[2]>>

\* C21: after a committed move the en passant target is set only if the move was a
\* two-square straight advance from the start rank onto an empty square by a pawn that
\* had never moved, and it is then the square passed over.
C21_TargetOnlyAfterDoublePush ==
    (Len(moveHistory) > 0 /\ enPassantTarget # <<>>) =>
        (LastMoveDoublePush /\ enPassantTarget = PassedSquare)

\* C22: every committed two-square straight advance of a never-moved pawn from its start
\* rank onto an empty square, made alone, with its stack or by unklik, leaves the en
\* passant target on the square passed over.
C22_DoublePushSetsTarget ==
    LastMoveDoublePush => enPassantTarget = PassedSquare

\* a piece of the stack on a square has a generated move to a square, of a type among
\* the given ones
PieceReaches(from, i, to, types) ==
    LET moves == getPieceMoves(board, from[1], from[2], board[from[1]][from[2]][i],
                               castlingRights, enPassantTarget, movedPawns)
    IN  \E k \in 1..Len(moves) :
            <<moves[k][1], moves[k][2]>> = to /\ moves[k][3] \in types

\* a stack of the side to move whose pawn reaches a square en passant and whose other
\* piece reaches the same square by an ordinary move
EnPassantChoiceCase(from, to) ==
    LET fromSquare == board[from[1]][from[2]]
    IN  /\ Len(fromSquare) = 2
        /\ isWhitePiece(fromSquare[1]) = (currentTurn = "white")
        /\ \E i \in {1, 2} :
               /\ isPawn(fromSquare[i]) /\ PieceReaches(from, i, to, {"en-passant"})
               /\ ~isPawn(fromSquare[3 - i]) /\ PieceReaches(from, 3 - i, to, {NoType})

\* the move types a client may name in a submit of a whole square
WholeSquareTypes ==
    {"normal", "klik", "en-passant", "en-passant-choice"} \cup CastleKTypes \cup CastleQTypes

\* the types under which the session accepts the move of the whole square
AcceptedTypes(from, to) ==
    {moveType \in WholeSquareTypes : AcceptedInPosition(Submit(from, to, moveType, -1, NoPiece))}

\* C23: where a stack's pawn reaches a square en passant and its other piece reaches it
\* by an ordinary move, the candidate generated for the square is en-passant-choice, and
\* the session accepts the move under the types en-passant and normal and no other.
C23_EnPassantChoice ==
    \A from \in Squares, to \in Squares :
        EnPassantChoiceCase(from, to) =>
            /\ AllMoves(board, from[1], from[2], board[from[1]][from[2]], castlingRights,
                        enPassantTarget, movedPawns)[Key(to[1], to[2])] = "en-passant-choice"
            /\ AcceptedTypes(from, to) = {"en-passant", "normal"}

\* the en passant candidates generated for the pieces of a square of the side to move,
\* each with the piece it was generated for: <<piece, row, col>>
EnPassantCandidates(from) ==
    IF Len(board[from[1]][from[2]]) = 0
       \/ isWhitePiece(board[from[1]][from[2]][1]) # (currentTurn = "white")
    THEN {}
    ELSE
    UNION {LET piece == board[from[1]][from[2]][i]
               moves == getPieceMoves(board, from[1], from[2], piece, castlingRights,
                                      enPassantTarget, movedPawns)
           IN  {<<piece, moves[k][1], moves[k][2]>> :
                    k \in {x \in 1..Len(moves) : moves[x][3] = "en-passant"}} :
           i \in 1..Len(board[from[1]][from[2]])}

\* C24 as stated: an en passant candidate is generated only for a pawn that reaches the
\* en passant target by a straight one-square forward push.
C24_EnPassantStraight ==
    \A from \in Squares : \A m \in EnPassantCandidates(from) :
        /\ isPawn(m[1])
        /\ <<m[2], m[3]>> = enPassantTarget
        /\ m[3] = from[2]
        /\ m[2] = from[1] + (IF isWhitePiece(m[1]) THEN -1 ELSE 1)

\* C24 amended: an en passant candidate is generated only for a pawn, only onto the
\* stored en passant target, and only as the pawn's diagonal step one row forward; a
\* straight push is never typed en passant.
C24_EnPassantDiagonal ==
    \A from \in Squares : \A m \in EnPassantCandidates(from) :
        /\ isPawn(m[1])
        /\ <<m[2], m[3]>> = enPassantTarget
        /\ Abs(m[3] - from[2]) = 1
        /\ m[2] = from[1] + (IF isWhitePiece(m[1]) THEN -1 ELSE 1)

\* a pawn of the side to move has an en passant candidate
C24_Witness ==
    \E from \in Squares : EnPassantCandidates(from) # {}

\* the types a client may resolve a candidate to
Resolutions(moveType) ==
    CASE moveType = "en-passant-choice" -> {"en-passant", "normal"}
      [] moveType = "castle-k-choice" -> {"castle-k", "castle-k-both"}
      [] moveType = "castle-q-choice" -> {"castle-q", "castle-q-both"}
      [] OTHER -> {moveType}

\* the candidates of a whole square of the side to move that the check filter of
\* getCombinedMoves drops: <<row, col, type>>; castling candidates, which the filter
\* also tests for the squares the king crosses, are left aside
DroppedCandidates(from) ==
    LET pieces == board[from[1]][from[2]]
    IN  IF Len(pieces) = 0 \/ isWhitePiece(pieces[1]) # (currentTurn = "white") THEN {}
        ELSE LET allMoves == AllMoves(board, from[1], from[2], pieces, castlingRights,
                                      enPassantTarget, movedPawns)
             IN  {m \in {<<k \div 8, k % 8, allMoves[k]>> :
                             k \in {x \in 0..63 : allMoves[x] # NoMove}} :
                     /\ ~IsCastle(m[3])
                     /\ wouldBeInCheck(board, from[1], from[2], m[1], m[2], pieces,
                                       m[3], -1)}

\* the mover's king is attacked after the executor has made the move
UnsafeWhenExecuted(move) == isInCheck(Executed(move).board, currentTurn)

\* C25: every candidate of a whole square that the check filter drops would leave the
\* mover's king attacked if it were executed, under each type it resolves to.
C25_FilterDropsOnlyUnsafe ==
    \A from \in Squares : \A m \in DroppedCandidates(from) :
        \A moveType \in Resolutions(m[3]) :
            UnsafeWhenExecuted(Submit(from, <<m[1], m[2]>>, moveType, -1, NoPiece))

\* a pawn stands on the back rank of its own colour
PawnOnOwnBackRank ==
    \E c \in Idx :
        \/ \E i \in 1..Len(board[7][c]) :
               isPawn(board[7][c][i]) /\ isWhitePiece(board[7][c][i])
        \/ \E i \in 1..Len(board[0][c]) :
               isPawn(board[0][c][i]) /\ ~isWhitePiece(board[0][c][i])

\* C26: in every reachable position no white pawn stands on the first rank and no black
\* pawn on the eighth.
C26_NoPawnOnOwnBackRank == ~PawnOnOwnBackRank

\* a klik of a pawn from a square to a square is a straight forward step: one square
\* ahead, or two ahead from the start rank for a never-moved pawn over an empty square,
\* onto exactly one friendly piece that is not a king
PawnKlikAllowed(pawn, from, to) ==
    LET dir == IF isWhitePiece(pawn) THEN -1 ELSE 1
        startRow == IF isWhitePiece(pawn) THEN 6 ELSE 1
        target == board[to[1]][to[2]]
    IN  /\ to[2] = from[2]
        /\ \/ to[1] = from[1] + dir
           \/ /\ to[1] = from[1] + 2 * dir
              /\ from[1] = startRow
              /\ pawn \notin movedPawns
              /\ Len(board[from[1] + dir][from[2]]) = 0
        /\ Len(target) = 1
        /\ isWhitePiece(target[1]) = isWhitePiece(pawn)
        /\ getPieceType(target[1]) # "k"

\* the kliks generated for a pawn of a square of the side to move: of the lone pawn the
\* klik candidates of getCombinedMoves before its check filter, of a stacked pawn the
\* unklik-klik moves of validateMove; the session accepts no other; <<pawn, row, col>>
AcceptedPawnKliks(from) ==
    LET pieces == board[from[1]][from[2]]
    IN  IF Len(pieces) = 0 \/ isWhitePiece(pieces[1]) # (currentTurn = "white")
           \/ ~SomePawn(pieces)
        THEN {}
        ELSE (IF Len(pieces) = 1
              THEN LET allMoves == AllMoves(board, from[1], from[2], pieces,
                                            castlingRights, enPassantTarget, movedPawns)
                   IN  {<<pieces[1], k \div 8, k % 8>> :
                            k \in {x \in 0..63 : allMoves[x] = "klik"}}
              ELSE {})
             \cup UNION {{<<pieces[i + 1], m[1], m[2]>> :
                              m \in {x \in UnklikValidMoves(board, from[1], from[2], i,
                                                            castlingRights, enPassantTarget,
                                                            movedPawns) :
                                         x[3] = "unklik-klik"}} :
                         i \in {j \in 0..(Len(pieces) - 1) : isPawn(pieces[j + 1])}}

C28_UnklikNeedsStack ==
    (Len(moveHistory) > 0 /\ lastMove.moveType \in UnklikTypes) =>
        /\ Len(before.board[lastMove.from[1]][lastMove.from[2]]) = 2
        /\ lastMove.unklikIndex \in {0, 1}

\* a few submits a seated player may send at any time
ProbeSubmits ==
    {Normal(Sq("e", 2), Sq("e", 4)), Normal(Sq("e", 7), Sq("e", 5)),
     Unklik(Sq("g", 1), Sq("f", 3), 0)}

\* C29: for every seated player, whoever is to move, a submit on a session that is over
\* is rejected with the game-over error, and a submit on a session that has not started
\* is rejected with the game-not-started error.
C29_OverAndNotStartedErrors ==
    \A p \in Players : getPlayerColor(p) # NoColor =>
        \A move \in ProbeSubmits :
            /\ gameOver => validateMove(p, move).error = "Game is over"
            /\ (~gameOver /\ ~gameStarted) =>
                   validateMove(p, move).error = "Game has not started"


\* the position of the session
Position ==
    [board |-> board, currentTurn |-> currentTurn, castlingRights |-> castlingRights,
     enPassantTarget |-> enPassantTarget, movedPawns |-> movedPawns]

ExampleBoard ==
    SetSq(SetSq(SetSq(SetSq(clearBoard, 7, 0, <<"K">>), 6, 0, <<"P0">>), 6, 2, <<"k">>),
          5, 1, <<"q">>)

InitStalemateExample ==
    /\ board = ExampleBoard
    /\ currentTurn = "black"
    /\ castlingRights = [white |-> NoRights, black |-> NoRights]
    /\ enPassantTarget = <<>>
    /\ movedPawns \in {{}, {"P0"}}
    /\ moveHistory = <<>>
    /\ whitePlayer = NoPlayer
    /\ blackPlayer = NoPlayer
    /\ gameStarted = FALSE
    /\ gameOver = FALSE
    /\ result = NoResult
    /\ onGameEnd = FALSE
    /\ activeColor = NoColor
    /\ activeSessions = TRUE
    /\ playerToGame = {}
    /\ kingMoved = [c \in Colors |-> TRUE]
    /\ rookLeft = [c \in Colors |-> [kingSide |-> TRUE, queenSide |-> TRUE]]
    /\ lastMove = NoSubmit
    /\ before = [board |-> board, castlingRights |-> castlingRights,
                 enPassantTarget |-> enPassantTarget, movedPawns |-> movedPawns]
    /\ book = 0
    /\ Idle
SpecStalemateExample == InitStalemateExample /\ [][Next]_vars

\* Black's queen has just gone from b3 to b2 in the example position
QueenToB2 ==
    /\ lastMove = Normal(Sq("b", 3), Sq("b", 2))
    /\ before.board = ExampleBoard
    /\ Len(moveHistory) = 1

\* C31 (as stated): after the queen's move b3-b2 in the example position White has no
\* legal move and the session's terminal state is stalemate.
C31_ExampleIsStalemate ==
    QueenToB2 => /\ ~hasLegalMoves(board, currentTurn, castlingRights, enPassantTarget,
                                   movedPawns)
                 /\ gameOver /\ result.type = "stalemate"

\* C31 (amended): after the queen's move b3-b2 in the example position White has no
\* legal move, White's king is attacked by the queen, and the session's terminal state
\* is checkmate with Black the winner.
C31_ExampleIsCheckmate ==
    QueenToB2 => /\ ~hasLegalMoves(board, currentTurn, castlingRights, enPassantTarget,
                                   movedPawns)
                 /\ isInCheck(board, "white")
                 /\ gameOver /\ result = [type |-> "checkmate", winner |-> "black"]

C31_Witness == QueenToB2 /\ gameOver /\ currentTurn = "white"

\* the position the last committed move was made in
BeforePosition ==
    [board |-> before.board, currentTurn |-> Mover, castlingRights |-> before.castlingRights,
     enPassantTarget |-> before.enPassantTarget, movedPawns |-> before.movedPawns]

\* the position the client's executor makes of the last committed move, for a setting
\* of its automatic promotion
ClientPosition(autoPromote) ==
    LET x == ClientExecuted(BeforePosition, lastMove, autoPromote)
    IN  [board |-> x.board, currentTurn |-> x.currentTurn,
         castlingRights |-> x.castlingRights, enPassantTarget |-> x.enPassantTarget,
         movedPawns |-> x.movedPawns]

\* C32: for every committed move, the client's local executor given the position the
\* move was made in and the parameters of the submit arrives (whenever it completes the
\* move) at the position the server's executor has made: same board, side to move,
\* castling rights, en passant target and moved pawns.
C32_ExecutorsAgree ==
    Len(moveHistory) > 0 =>
        \A autoPromote \in BOOLEAN :
            ~ClientExecuted(BeforePosition, lastMove, autoPromote).pendingPromotion
                => ClientPosition(autoPromote) = Position

\* the last step was a submit that got a rejection as its reply
Rejected == lastReply' # lastReply /\ lastReply'.error # ""

\* C34: a submit that is rejected, whatever the reason, leaves the board, the side to
\* move, the castling rights, the en passant target, the moved pawns, the move history
\* and the active clock as they were.
C34_RejectionChangesNothing ==
    [][Rejected => UNCHANGED <<sessionVars, activeColor>>]_vars

C34_Witness ==
    /\ lastReply.error = "Invalid move"
    /\ enPassantTarget # <<>>
    /\ activeColor # NoColor

\* C35: once a started game has ended, for whatever reason, and the end-of-game handling
\* has run, neither player is still registered as being in it: getGameByPlayer finds no
\* game for them, so game:create, game:join and a challenge are open to them.
C35_PlayersFreeAfterEnd ==
    (gameStarted /\ gameOver) => \A p \in Players : ~getGameByPlayer(p)

\* the places of a board where a piece stands
PlacesOf(b, piece) ==
    {<<r, c, i>> \in Idx \X Idx \X (1..3) : i <= Len(b[r][c]) /\ b[r][c][i] = piece}

\* no two pawns of a board carry the same identity
UniquePawnIds(b) ==
    \A pawn \in WhitePawnIds \cup BlackPawnIds : Cardinality(PlacesOf(b, pawn)) <= 1

\* C38: on the board of the initial setup and on the board that loading a position string
\* gives, no two pawns of a colour share an identity.
C38_PawnIdsUnique ==
    /\ UniquePawnIds(createInitialBoard)
    /\ UniquePawnIds(setBoardFromFEN(getBoardAsFEN(board, currentTurn), Position).board)

(***************************************************************************)
(* The client playing on its own state module (state.ts), whose fields are *)
(* those of the session: board, currentTurn, castlingRights,               *)
(* enPassantTarget, movedPawns, moveHistory and gameOver hold the client's *)
(* state in the specifications of this part                                *)
(***************************************************************************)
\* the position after initializeBoard
InitialPosition ==
    [board |-> createInitialBoard, currentTurn |-> "white",
     castlingRights |-> [white |-> [kingSide |-> TRUE, queenSide |-> TRUE],
                         black |-> [kingSide |-> TRUE, queenSide |-> TRUE]],
     enPassantTarget |-> <<>>, movedPawns |-> {}]

\* what a click on a square and then on one of its valid moves executes: the whole
\* square's move to the target, or nothing when the source is not the mover's, the
\* target is no valid move, or the move opens a choice dialog
ClickedMoveIn(position, from, to) ==
    LET fromSquare == position.board[from[1]][from[2]]
        moves == IF Len(fromSquare) = 0
                    \/ isWhitePiece(fromSquare[1]) # (position.currentTurn = "white")
                 THEN {}
                 ELSE {m \in getCombinedMoves(position.board, from[1], from[2], fromSquare,
                                              position.castlingRights,
                                              position.enPassantTarget, position.movedPawns,
                                              -1) :
                           /\ m[1] = to[1] /\ m[2] = to[2]
                           /\ m[3] \notin {"castle-k-choice", "castle-q-choice",
                                           "en-passant-choice"}}
    IN  IF moves = {} THEN NoSubmit
        ELSE Submit(from, to, (CHOOSE m \in moves : TRUE)[3], -1, NoPiece)
ClickedMove(from, to) == ClickedMoveIn(Position, from, to)

\* the client's state after its executor has made the move, with checkForCheckmate
ClientMoves(move) ==
    LET x == ClientExecuted(Position, move, FALSE)
    IN  /\ ~x.pendingPromotion
        /\ board' = x.board
        /\ currentTurn' = x.currentTurn
        /\ castlingRights' = x.castlingRights
        /\ enPassantTarget' = x.enPassantTarget
        /\ movedPawns' = x.movedPawns
        /\ moveHistory' = Append(moveHistory, currentTurn)
        /\ gameOver' = (gameOver \/ ~hasLegalMoves(x.board, x.currentTurn, x.castlingRights,
                                                  x.enPassantTarget, x.movedPawns))
        /\ UNCHANGED <<seatVars, gameStarted, result, onGameEnd, activeColor, serviceVars,
                       historyVars, book, lastReply, lobby>>

\* the squares the user clicks in the client specifications
ClickSquares ==
    {Sq("e", 2), Sq("e", 3), Sq("e", 4), Sq("d", 7), Sq("d", 5), Sq("e", 7), Sq("e", 5),
     Sq("g", 1), Sq("f", 3)}

(***************************************************************************)
(* Analysis mode (analysisMode.ts)                                         *)
(***************************************************************************)
\* the most moves played in one analysis, abandoned variations included
MaxAnalysisMoves == 3

\* captureCurrentState, of the state the primed variables describe or the present one
Snapshot(b, turn, target, rights, moved) ==
    [board |-> b, currentTurn |-> turn, castlingRights |-> rights,
     enPassantTarget |-> target, movedPawns |-> moved]

\* startFreshAnalysis(true)
startFreshAnalysis ==
    [isActive |-> TRUE, moveIndex |-> -1, savedMoves |-> <<>>,
     boardStates |-> <<InitialPosition>>]

\* addAnalysisMove, called by finishMove with the state after the move
addAnalysisMove(turn) ==
    LET atEnd == ~(analysis.moveIndex < Len(analysis.savedMoves) - 1)
        savedMoves == IF atEnd THEN analysis.savedMoves
                      ELSE SubSeq(analysis.savedMoves, 1, analysis.moveIndex + 1)
        boardStates == IF atEnd THEN analysis.boardStates
                       ELSE SubSeq(analysis.boardStates, 1, analysis.moveIndex + 2)
    IN  analysis' = [analysis EXCEPT
                         !.savedMoves = Append(savedMoves, turn),
                         !.boardStates = Append(boardStates,
                                                Snapshot(board', currentTurn', enPassantTarget',
                                                         castlingRights', movedPawns')),
                         !.moveIndex = Len(savedMoves)]

\* a move played on the board in analysis mode
AnalysisMove(from, to) ==
    /\ analysis.isActive
    /\ Len(moveHistory) < MaxAnalysisMoves
    /\ ClickedMove(from, to) # NoSubmit
    /\ ClientMoves(ClickedMove(from, to))
    /\ addAnalysisMove(currentTurn)
    /\ UNCHANGED <<engine, premove>>

\* goToMove(index), with restoreSnapshot: the board, the turn and the en passant target
\* are set from the snapshot
goToMove(index) ==
    /\ analysis.isActive
    /\ IF index < -1 \/ index >= Len(analysis.savedMoves)
       THEN UNCHANGED vars
       ELSE /\ analysis' = [analysis EXCEPT !.moveIndex = index]
            /\ IF index + 1 >= 0 /\ index + 1 < Len(analysis.boardStates)
               THEN LET snapshot == analysis.boardStates[index + 2]
                    IN  /\ board' = snapshot.board
                        /\ currentTurn' = snapshot.currentTurn
                        /\ enPassantTarget' = snapshot.enPassantTarget
               ELSE UNCHANGED <<board, currentTurn, enPassantTarget>>
            /\ UNCHANGED <<castlingRights, movedPawns, moveHistory, seatVars, flowVars,
                           serviceVars, historyVars, book, lastReply, lobby, engine,
                           premove>>

NextAnalysis ==
    \/ \E from \in ClickSquares, to \in ClickSquares : AnalysisMove(from, to)
    \/ \E index \in -2..MaxAnalysisMoves : goToMove(index)

InitAnalysis ==
    /\ InitGame /\ book = 0
    /\ IdleReply /\ IdleLobby /\ IdleEngine /\ IdlePremove
    /\ analysis = startFreshAnalysis
SpecAnalysis == InitAnalysis /\ [][NextAnalysis]_vars

\* C40: in analysis mode the client's position is the one recorded for the move index
\* shown: navigating to index i leaves the board, the side to move, the en passant
\* target, the castling rights and the moved pawns as the snapshot taken after move i
\* has them.
C40_NavigationRestores ==
    analysis.isActive =>
        Position = analysis.boardStates[analysis.moveIndex + 2]

(***************************************************************************)
(* Playing against the engine (engineGame.ts)                              *)
(***************************************************************************)
\* the most games started against the engine, and the most moves made in one of them
MaxEngineGames == 2
MaxEngineMoves == 2

\* isEngineTurn
isEngineTurn(e, turn) == e.active /\ turn = e.engineColor

\* the moves the engine may answer with for the present position: a move of the side to
\* move, or no move at all (result.error, no bestMove)
EngineAnswers ==
    {ClickedMove(from, to) : from \in ClickSquares, to \in ClickSquares}

\* the fetch part of requestEngineMove: thinking is set and the request for the present
\* position is in flight, with the answer the engine will give
Requested(e, answer) ==
    [e EXCEPT !.thinking = TRUE,
              !.requests = @ \cup {[game |-> e.games, ply |-> Len(moveHistory),
                                    move |-> answer]}]

\* startEngineGame(playerColor)
startEngineGame(playerColor) ==
    /\ engine.games < MaxEngineGames
    /\ board' = InitialPosition.board
    /\ currentTurn' = InitialPosition.currentTurn
    /\ castlingRights' = InitialPosition.castlingRights
    /\ enPassantTarget' = InitialPosition.enPassantTarget
    /\ movedPawns' = InitialPosition.movedPawns
    /\ moveHistory' = <<>>
    /\ gameOver' = FALSE
    /\ LET e == [engine EXCEPT !.active = TRUE,
                               !.engineColor = IF playerColor = "white" THEN "black"
                                               ELSE "white",
                               !.thinking = FALSE,
                               !.games = @ + 1,
                               !.lastBy = ""]
       IN  IF e.engineColor = "white"
           THEN \E answer \in {ClickedMoveIn(InitialPosition, from, to) :
                                   from \in ClickSquares, to \in ClickSquares} :
                    engine' = [e EXCEPT !.thinking = TRUE,
                                        !.requests = @ \cup {[game |-> e.games, ply |-> 0,
                                                              move |-> answer]}]
           ELSE engine' = e
    /\ UNCHANGED <<seatVars, gameStarted, result, onGameEnd, activeColor, serviceVars,
                   historyVars, book, lastReply, lobby, premove, analysis>>

\* stopEngineGame
stopEngineGame ==
    /\ engine' = [engine EXCEPT !.active = FALSE, !.thinking = FALSE]
    /\ UNCHANGED <<gameVars, lastReply, lobby, premove, analysis>>

\* resignEngineGame
resignEngineGame ==
    /\ IF ~engine.active \/ gameOver
       THEN UNCHANGED <<engine, gameOver>>
       ELSE engine' = [engine EXCEPT !.thinking = FALSE] /\ gameOver' = TRUE
    /\ UNCHANGED <<sessionVars, seatVars, gameStarted, result, onGameEnd, activeColor,
                   serviceVars, historyVars, book, lastReply, lobby, premove, analysis>>

\* the end of finishMove: the timer for requestEngineMove is set when the engine is to
\* move
EngineAfterMove(e) ==
    IF isEngineTurn(e, currentTurn') /\ ~gameOver' THEN [e EXCEPT !.timers = @ + 1] ELSE e

\* the user moves a piece on the board: handleSquareClick takes no click when the game is
\* over or while the engine is to move
HumanMove(from, to) ==
    /\ ~gameOver
    /\ ~isEngineTurn(engine, currentTurn)
    /\ Len(moveHistory) < MaxEngineMoves
    /\ ClickedMove(from, to) # NoSubmit
    /\ ClientMoves(ClickedMove(from, to))
    /\ engine' = EngineAfterMove([engine EXCEPT !.lastBy = "human"])
    /\ UNCHANGED <<premove, analysis>>

\* the timer set by finishMove fires: requestEngineMove up to its await
requestEngineMove ==
    /\ engine.timers > 0
    /\ IF ~engine.active \/ gameOver
       THEN engine' = [engine EXCEPT !.timers = @ - 1]
       ELSE \E answer \in EngineAnswers :
                engine' = Requested([engine EXCEPT !.timers = @ - 1], answer)
    /\ UNCHANGED <<gameVars, lastReply, lobby, premove, analysis>>

\* the move executeEngineMove makes on the present board for a parsed answer without
\* unklik index: a valid move of the source square to the target, the klik one for the
\* suffix k and another one otherwise; NoSubmit when there is none
EngineMove(parsed) ==
    LET fromSq == board[parsed.from[1]][parsed.from[2]]
        candidates == IF Len(fromSq) = 0 THEN {}
                      ELSE {m \in getCombinedMoves(board, parsed.from[1], parsed.from[2], fromSq,
                                                   castlingRights, enPassantTarget, movedPawns,
                                                   -1) :
                                m[1] = parsed.to[1] /\ m[2] = parsed.to[2]}
        preferred == IF parsed.moveType = "klik"
                     THEN {m \in candidates : m[3] = "klik"}
                     ELSE {m \in candidates : m[3] # "klik"}
    IN  IF candidates = {} THEN NoSubmit
        ELSE Submit(parsed.from, parsed.to,
                    (CHOOSE m \in (IF preferred = {} THEN candidates ELSE preferred) : TRUE)[3],
                    -1, parsed.promoteTo)

\* the answer to a request arrives: requestEngineMove after its await, with
\* executeEngineMove
EngineReply(request) ==
    /\ request \in engine.requests
    /\ LET e == [engine EXCEPT !.requests = @ \ {request}]
           move == EngineMove(request.move)
       IN  IF ~engine.active \/ gameOver
           THEN engine' = e /\ UNCHANGED gameVars
           ELSE IF request.move = NoSubmit \/ move = NoSubmit
           THEN engine' = [e EXCEPT !.thinking = FALSE] /\ UNCHANGED gameVars
           ELSE /\ Len(moveHistory) < MaxEngineMoves
                /\ ClientMoves(move)
                /\ engine' = [EngineAfterMove(e) EXCEPT
                                  !.thinking = FALSE,
                                  !.lastBy = "engine",
                                  !.applied =
                                      [requested |-> <<request.game, request.ply>>,
                                       applied |-> <<engine.games, Len(moveHistory)>>,
                                       turn |-> currentTurn,
                                       engineColor |-> engine.engineColor,
                                       mover |-> IF isWhitePiece(
                                                        board[move.from[1]][move.from[2]][1])
                                                 THEN "white" ELSE "black",
                                       afterEngine |-> engine.lastBy = "engine"]]
    /\ UNCHANGED <<lastReply, lobby, premove, analysis>>

NextEngine ==
    \/ \E playerColor \in Colors : startEngineGame(playerColor)
    \/ stopEngineGame
    \/ resignEngineGame
    \/ \E from \in ClickSquares, to \in ClickSquares : HumanMove(from, to)
    \/ requestEngineMove
    \/ \E request \in engine.requests : EngineReply(request)

InitEngine ==
    /\ InitGame /\ book = 0
    /\ IdleReply /\ IdleLobby /\ IdlePremove /\ IdleAnalysis
    /\ engine = NoEngine
SpecEngine == InitEngine /\ [][NextEngine]_vars

\* C37: a reply of the engine that moves a piece was requested for the game and the
\* position it is applied to, is applied while the engine is to move, moves a piece of
\* the engine's colour, and does not follow another move of the engine.
C37_ReplyForThisPosition ==
    engine.applied # NoApplied =>
        /\ engine.applied.requested = engine.applied.applied
        /\ engine.applied.turn = engine.applied.engineColor
        /\ engine.applied.mover = engine.applied.engineColor
        /\ ~engine.applied.afterEngine

(***************************************************************************)
(* Premoves of an online game (premove.ts, tryExecutePremove).  A client's *)
(* copy of the position is the session's: game:move-made carries the       *)
(* board, the turn, the en passant target, the castling rights and the     *)
(* moved pawns, and the client takes them over                             *)
(***************************************************************************)
\* the moves the two players make by hand: 1.e4 d5 2.Nc3, and then d5xe4 or d5-d4
PremoveLine ==
    << {Normal(Sq("e", 2), Sq("e", 4))},
       {Normal(Sq("d", 7), Sq("d", 5))},
       {Normal(Sq("b", 1), Sq("c", 3))},
       {Normal(Sq("d", 5), Sq("e", 4)), Normal(Sq("d", 5), Sq("d", 4))} >>

\* the most moves of a game with premoves
MaxPremovePlies == 5

\* the squares the players click while the opponent is to move
PremoveSquares ==
    {Sq("c", 3), Sq("e", 4), Sq("d", 5), Sq("d", 4), Sq("b", 5), Sq("d", 8)}

\* onMoveMade on the client of player q after a move was made: the timer for
\* tryExecutePremove is set when q is to move, and onGameOver clears the premove
AfterMoveMade(state, q) ==
    IF moveHistory' = moveHistory THEN state
    ELSE [state EXCEPT !.timer = @ \/ currentTurn' = getPlayerColor(q),
                       !.stored = IF gameOver' THEN NoSubmit ELSE @]

\* a player makes a move by hand and the server handles it; the 50 ms timer of the
\* player's client fires before the player's next click
OnlineMove(p, move) ==
    /\ ~premove[p].timer
    /\ GameMoveOn(p, move)
    /\ premove' = [q \in Players |-> AfterMoveMade(premove[q], q)]
    /\ UNCHANGED <<lastReply, lobby, engine, analysis>>

\* handleSquareClick while the opponent is to move: a square of one's own is selected and
\* one of its valid moves is clicked, which stores the premove with the move's type
SetPremove(p, from, to) ==
    LET myColor == getPlayerColor(p)
        square == board[from[1]][from[2]]
    IN  /\ ~premove[p].timer
        /\ gameStarted /\ ~gameOver
        /\ myColor # NoColor /\ currentTurn # myColor
        /\ Len(square) > 0 /\ isWhitePiece(square[1]) = (myColor = "white")
        /\ \E move \in getCombinedMoves(board, from[1], from[2], square, castlingRights,
                                        enPassantTarget, movedPawns, -1) :
               /\ move[1] = to[1] /\ move[2] = to[2]
               /\ premove' = [premove EXCEPT
                                  ![p].stored = Submit(from, to, move[3], -1, NoPiece)]
        /\ UNCHANGED <<gameVars, lastReply, lobby, engine, analysis>>

\* handleSquareClick while the opponent is to move, on another square: clearPremove
ClearPremove(p) ==
    /\ ~premove[p].timer
    /\ gameStarted /\ ~gameOver
    /\ getPlayerColor(p) # NoColor /\ currentTurn # getPlayerColor(p)
    /\ premove[p].stored # NoSubmit
    /\ premove' = [premove EXCEPT ![p].stored = NoSubmit]
    /\ UNCHANGED <<gameVars, lastReply, lobby, engine, analysis>>

\* what tryExecutePremove sends for the stored premove: the valid move of the source
\* square to the stored target, with the type that move has now; NoSubmit when nothing is
\* sent (no premove, the source is empty or the opponent's, the target is no valid move,
\* or the promotion dialog opens)
tryExecutePremove(p) ==
    LET stored == premove[p].stored
        fromSquare == board[stored.from[1]][stored.from[2]]
        isWhite == isWhitePiece(fromSquare[1])
        matchingMove == {m \in getCombinedMoves(board, stored.from[1], stored.from[2],
                                                fromSquare, castlingRights, enPassantTarget,
                                                movedPawns, stored.unklikIndex) :
                             m[1] = stored.to[1] /\ m[2] = stored.to[2]}
    IN  IF stored = NoSubmit THEN NoSubmit
        ELSE IF Len(fromSquare) = 0 THEN NoSubmit
        ELSE IF isWhite # (getPlayerColor(p) = "white") THEN NoSubmit
        ELSE IF matchingMove = {} THEN NoSubmit
        ELSE IF /\ \E i \in 1..Len(fromSquare) : isPawn(fromSquare[i])
                /\ stored.to[1] = (IF isWhite THEN 0 ELSE 7)
                /\ stored.promoteTo = NoPiece
        THEN NoSubmit
        ELSE Submit(stored.from, stored.to, (CHOOSE m \in matchingMove : TRUE)[3],
                    stored.unklikIndex, stored.promoteTo)

\* the timer set by onMoveMade fires: tryExecutePremove, and the server's handling of
\* the move it sends
PremoveFires(p) ==
    /\ premove[p].timer
    /\ LET sent == tryExecutePremove(p)
           cleared == [premove[p] EXCEPT !.stored = NoSubmit, !.timer = FALSE]
       IN  IF sent = NoSubmit
           THEN premove' = [premove EXCEPT ![p] = cleared] /\ UNCHANGED gameVars
           ELSE /\ Len(moveHistory) < MaxPremovePlies
                /\ GameMoveOn(p, sent)
                /\ premove' =
                       [q \in Players |->
                           AfterMoveMade(
                               IF q # p THEN premove[q]
                               ELSE [cleared EXCEPT
                                         !.executed =
                                             [stored |-> premove[p].stored,
                                              sent |-> sent,
                                              legal |-> validateMove(
                                                            p, premove[p].stored).valid]],
                               q)]
    /\ UNCHANGED <<lastReply, lobby, engine, analysis>>

NextPremove ==
    \/ \E p \in Players : GameCreate(p)
    \/ \E p \in Players : GameJoin(p)
    \/ \E p \in Players :
           /\ Len(moveHistory) < Len(PremoveLine)
           /\ \E move \in PremoveLine[Len(moveHistory) + 1] : OnlineMove(p, move)
    \/ \E p \in Players, from \in PremoveSquares, to \in PremoveSquares :
           SetPremove(p, from, to)
    \/ \E p \in Players : ClearPremove(p)
    \/ \E p \in Players : PremoveFires(p)

InitPremove == InitGame /\ book = 0 /\ Idle
SpecPremove == InitPremove /\ [][NextPremove]_vars

\* C39: the move a premove sends is the stored premove, with its source, target, type,
\* unklik index and promotion piece, and it is sent only if the stored premove is a
\* legal move of the position then.
C39_PremoveSentAsStored ==
    \A p \in Players :
        premove[p].executed.sent # NoSubmit =>
            /\ premove[p].executed.sent = premove[p].executed.stored
            /\ premove[p].executed.legal

(***************************************************************************)
(* The lobby (lobby.ts) with the game service's sessions (GameService).    *)
(* A session is its two seats and whether it has started, is over and has  *)
(* been removed from activeSessions; the moves of its game are left out    *)
(***************************************************************************)
\* the most challenges and rematch requests sent, and the most sessions created
MaxChallenges == 1
MaxRematches == 1
MaxSessions == 2

\* GameService.getGameByPlayer: the session of l.playerToGame that activeSessions still
\* holds, or 0
gameByPlayer(l, p) ==
    IF l.playerToGame[p] # 0 /\ ~l.sessions[l.playerToGame[p]].removed
    THEN l.playerToGame[p] ELSE 0

\* LobbyService.updateUserStatus
updateUserStatus(users, p, status) ==
    IF users[p] = "offline" THEN users ELSE [users EXCEPT ![p] = status]

\* the sessions the player has a seat in that are not over
SeatsOf(l, p) ==
    {g \in 1..Len(l.sessions) :
         /\ l.sessions[g].white = p \/ l.sessions[g].black = p
         /\ ~l.sessions[g].over /\ ~l.sessions[g].removed}

\* the rest of the state is left alone by the lobby
LobbyOnly == UNCHANGED <<gameVars, lastReply, engine, premove, analysis>>

\* a socket connects: lobbyService.addUser
Connect(p) ==
    /\ lobby.users[p] = "offline"
    /\ lobby' = [lobby EXCEPT !.users[p] = "online"]
    /\ LobbyOnly

\* createGame and joinGame of both players, the status update and startGame, as the
\* accept handlers do them
StartedGame(l, white, black) ==
    LET g == Len(l.sessions) + 1
    IN  [l EXCEPT !.sessions = Append(@, [white |-> white, black |-> black, started |-> TRUE,
                                          over |-> FALSE, removed |-> FALSE]),
                  !.playerToGame = [@ EXCEPT ![white] = g, ![black] = g],
                  !.users = updateUserStatus(updateUserStatus(@, white, "in-game"),
                                             black, "in-game")]

\* game:create
LobbyGameCreate(p) ==
    /\ lobby.users[p] # "offline"
    /\ IF gameByPlayer(lobby, p) # 0
       THEN UNCHANGED lobby
       ELSE /\ Len(lobby.sessions) < MaxSessions
            /\ lobby' = [lobby EXCEPT
                             !.sessions = Append(@, [white |-> p, black |-> NoPlayer,
                                                     started |-> FALSE, over |-> FALSE,
                                                     removed |-> FALSE]),
                             !.playerToGame[p] = Len(lobby.sessions) + 1,
                             !.users[p] = "in-game"]
    /\ LobbyOnly

\* game:join with the code of session g
LobbyGameJoin(p, g) ==
    /\ lobby.users[p] # "offline"
    /\ g \in 1..Len(lobby.sessions)
    /\ LET session == lobby.sessions[g]
           full == session.white # NoPlayer /\ session.black # NoPlayer
           seated == IF session.white = NoPlayer THEN [session EXCEPT !.white = p]
                     ELSE [session EXCEPT !.black = p]
       IN  IF gameByPlayer(lobby, p) # 0 \/ session.removed \/ full \/ session.started
           THEN UNCHANGED lobby
           ELSE lobby' = [lobby EXCEPT
                              !.sessions[g] =
                                  [seated EXCEPT
                                       !.started = seated.white # NoPlayer
                                                   /\ seated.black # NoPlayer],
                              !.playerToGame[p] = g,
                              !.users[p] = "in-game"]
    /\ LobbyOnly

\* a started game ends by mate, stalemate, timeout or resignation: onGameEnd with
\* GameService.endGame and the status update
SessionEnds(g) ==
    /\ g \in 1..Len(lobby.sessions)
    /\ lobby.sessions[g].started /\ ~lobby.sessions[g].over
    /\ LET session == lobby.sessions[g]
           seats == {session.white, session.black} \ {NoPlayer}
       IN  lobby' = [lobby EXCEPT
                         !.sessions[g].over = TRUE,
                         !.playerToGame = [p \in Players |->
                                               IF p \in seats THEN 0 ELSE @[p]],
                         !.users = [p \in Players |->
                                        IF p \in seats /\ @[p] # "offline" THEN "online"
                                        ELSE @[p]]]
    /\ LobbyOnly

\* the timer GameService.endGame sets: the session leaves activeSessions after a minute
SessionRemoved(g) ==
    /\ g \in 1..Len(lobby.sessions)
    /\ lobby.sessions[g].over /\ ~lobby.sessions[g].removed
    /\ lobby' = [lobby EXCEPT !.sessions[g].removed = TRUE]
    /\ LobbyOnly

\* lobby:challenge
LobbyChallenge(p, targetId) ==
    /\ lobby.users[p] # "offline"
    /\ p # targetId
    /\ IF \/ lobby.users[targetId] = "offline"
          \/ lobby.users[targetId] = "in-game"
          \/ gameByPlayer(lobby, p) # 0
       THEN UNCHANGED lobby
       ELSE /\ Len(lobby.challenges) < MaxChallenges
            /\ lobby' = [lobby EXCEPT
                             !.pendingChallenges =
                                 @ \cup {[id |-> Len(lobby.challenges) + 1,
                                          challengerId |-> p, targetId |-> targetId]},
                             !.challenges =
                                 Append(@, [challengerId |-> p, targetId |-> targetId,
                                            games |-> 0, closed |-> "", acceptedBy |-> NoPlayer,
                                            lateAccept |-> FALSE])]
    /\ LobbyOnly

\* the pending challenge with the id, if any
Pending(id) == {c \in lobby.pendingChallenges : c.id = id}

\* a pending challenge leaves pendingChallenges for the reason given
Closed(l, ids, reason) ==
    [l EXCEPT !.pendingChallenges = {c \in @ : c.id \notin ids},
              !.challenges = [i \in 1..Len(@) |->
                                  IF i \in ids /\ @[i].closed = ""
                                  THEN [@[i] EXCEPT !.closed = reason] ELSE @[i]]]

\* lobby:challenge-accept up to its await; keeps tells whether the challenge stays in
\* pendingChallenges when it is accepted
AcceptUpToAwait(p, id, keeps) ==
    /\ lobby.users[p] # "offline"
    /\ id \in 1..Len(lobby.challenges)
    /\ IF Pending(id) = {}
       THEN lobby' = [lobby EXCEPT !.challenges[id].lateAccept = TRUE]
       ELSE LET challenge == CHOOSE c \in Pending(id) : TRUE
            IN  IF challenge.targetId # p THEN UNCHANGED lobby
                ELSE IF \/ gameByPlayer(lobby, challenge.challengerId) # 0
                        \/ gameByPlayer(lobby, challenge.targetId) # 0
                THEN lobby' = Closed(lobby, {id}, "refused")
                ELSE IF lobby.users[challenge.challengerId] = "offline"
                THEN lobby' = Closed(lobby, {id}, "offline")
                ELSE lobby' = [(IF keeps THEN lobby ELSE Closed(lobby, {id}, "accepted"))
                                   EXCEPT !.accepting = @ \cup {challenge},
                                          !.challenges[id].acceptedBy = p]
    /\ LobbyOnly

\* lobby:challenge-accept with the challenge left in pendingChallenges
ChallengeAcceptKeeps(p, id) == AcceptUpToAwait(p, id, TRUE)

\* lobby:challenge-accept up to its await
ChallengeAccept(p, id) == AcceptUpToAwait(p, id, FALSE)

\* lobby:challenge-accept after getColorStats has answered: the colours are chosen, the
\* game is created, both players join it and it starts
AcceptResumes(accept, challengerWhite) ==
    /\ accept \in lobby.accepting
    /\ Len(lobby.sessions) < MaxSessions
    /\ LET l == [lobby EXCEPT !.accepting = @ \ {accept},
                              !.challenges[accept.id].games = @ + 1]
       IN  lobby' = IF challengerWhite
                    THEN StartedGame(l, accept.challengerId, accept.targetId)
                    ELSE StartedGame(l, accept.targetId, accept.challengerId)
    /\ LobbyOnly

\* lobby:challenge-decline
ChallengeDecline(p, id) ==
    /\ lobby.users[p] # "offline"
    /\ \E c \in Pending(id) : c.targetId = p
    /\ lobby' = Closed(lobby, {id}, "declined")
    /\ LobbyOnly

\* lobby:challenge-cancel
ChallengeCancel(p, id) ==
    /\ lobby.users[p] # "offline"
    /\ \E c \in Pending(id) : c.challengerId = p
    /\ lobby' = Closed(lobby, {id}, "cancelled")
    /\ LobbyOnly

\* the timer of lobby:challenge after 30 seconds
ChallengeExpires(id) ==
    /\ Pending(id) # {}
    /\ lobby' = Closed(lobby, {id}, "expired")
    /\ LobbyOnly

\* game:rematch-request
RematchRequest(p, opponentId, previousWhiteId) ==
    /\ lobby.users[p] # "offline"
    /\ p # opponentId
    /\ IF lobby.users[opponentId] = "offline"
       THEN UNCHANGED lobby
       ELSE /\ lobby.rematches < MaxRematches
            /\ lobby' = [lobby EXCEPT
                             !.pendingRematches =
                                 @ \cup {[id |-> lobby.rematches + 1, requesterId |-> p,
                                          opponentId |-> opponentId,
                                          previousWhiteId |-> previousWhiteId]},
                             !.rematches = @ + 1]
    /\ LobbyOnly

\* game:rematch-accept
RematchAccept(p, rematch) ==
    /\ lobby.users[p] # "offline"
    /\ rematch \in lobby.pendingRematches
    /\ LET l == [lobby EXCEPT !.pendingRematches = @ \ {rematch}]
           newWhiteId == IF rematch.previousWhiteId = rematch.requesterId
                         THEN rematch.opponentId ELSE rematch.requesterId
           newBlackId == IF newWhiteId = rematch.requesterId
                         THEN rematch.opponentId ELSE rematch.requesterId
       IN  IF rematch.opponentId # p THEN UNCHANGED lobby
           ELSE IF \/ gameByPlayer(lobby, rematch.requesterId) # 0
                   \/ gameByPlayer(lobby, rematch.opponentId) # 0
                   \/ lobby.users[rematch.requesterId] = "offline"
           THEN lobby' = l
           ELSE /\ Len(lobby.sessions) < MaxSessions
                /\ lobby' = StartedGame(l, newWhiteId, newBlackId)
    /\ LobbyOnly

\* the rematch request's timer after 30 seconds, or game:rematch-decline
RematchExpires(rematch) ==
    /\ rematch \in lobby.pendingRematches
    /\ lobby' = [lobby EXCEPT !.pendingRematches = @ \ {rematch}]
    /\ LobbyOnly

\* the socket of a player disconnects: the game handler's disconnect (a game in progress
\* ends through removePlayer, a game not started is left and removed) and the lobby
\* handler's (the player's challenges and rematch requests are purged, the user removed)
LobbyDisconnect(p) ==
    /\ lobby.users[p] # "offline"
    /\ LET g == gameByPlayer(lobby, p)
           session == lobby.sessions[g]
           left == IF session.white = p THEN [session EXCEPT !.white = NoPlayer]
                   ELSE IF session.black = p THEN [session EXCEPT !.black = NoPlayer]
                   ELSE session
           seats == {left.white, left.black} \ {NoPlayer}
           afterGame ==
               IF g = 0 THEN lobby
               ELSE IF session.started /\ ~session.over
               THEN [lobby EXCEPT
                         !.sessions[g] = [left EXCEPT !.over = TRUE],
                         !.playerToGame = [q \in Players |->
                                               IF q \in seats THEN 0 ELSE @[q]],
                         !.users = [q \in Players |->
                                        IF q \in seats /\ @[q] # "offline" THEN "online"
                                        ELSE @[q]]]
               ELSE [lobby EXCEPT
                         !.sessions[g] = [left EXCEPT !.removed = TRUE],
                         !.playerToGame = [q \in Players |->
                                               IF q \in seats \cup {p} THEN 0 ELSE @[q]]]
           purged == {c.id : c \in {c \in lobby.pendingChallenges :
                                        c.challengerId = p \/ c.targetId = p}}
       IN  lobby' = [Closed(afterGame, purged, "purged") EXCEPT
                         !.pendingRematches = {r \in @ : r.requesterId # p
                                                         /\ r.opponentId # p},
                         !.users[p] = "offline"]
    /\ LobbyOnly

NextLobby ==
    \/ \E p \in Players : Connect(p)
    \/ \E p \in Players : LobbyGameCreate(p)
    \/ \E p \in Players, g \in 1..MaxSessions : LobbyGameJoin(p, g)
    \/ \E g \in 1..MaxSessions : SessionEnds(g)
    \/ \E g \in 1..MaxSessions : SessionRemoved(g)
    \/ \E p \in Players, targetId \in Players : LobbyChallenge(p, targetId)
    \/ \E p \in Players, id \in 1..MaxChallenges : ChallengeAccept(p, id)
    \/ \E accept \in lobby.accepting, challengerWhite \in BOOLEAN :
           AcceptResumes(accept, challengerWhite)
    \/ \E p \in Players, id \in 1..MaxChallenges : ChallengeDecline(p, id)
    \/ \E p \in Players, id \in 1..MaxChallenges : ChallengeCancel(p, id)
    \/ \E id \in 1..MaxChallenges : ChallengeExpires(id)
    \/ \E p \in Players, opponentId \in Players, previousWhiteId \in Players :
           RematchRequest(p, opponentId, previousWhiteId)
    \/ \E p \in Players, rematch \in lobby.pendingRematches : RematchAccept(p, rematch)
    \/ \E rematch \in lobby.pendingRematches : RematchExpires(rematch)
    \/ \E p \in Players : LobbyDisconnect(p)

InitLobby ==
    /\ InitGame /\ book = 0
    /\ IdleReply /\ IdleEngine /\ IdlePremove /\ IdleAnalysis
    /\ lobby = NoLobby
SpecLobby == InitLobby /\ [][NextLobby]_vars

\* C33: no player has a seat in two sessions that are not over, whatever the order of
\* game:create, game:join, lobby:challenge-accept and game:rematch-accept.
C33_OneSeatPerPlayer ==
    \A p \in Players : Cardinality(SeatsOf(lobby, p)) <= 1

\* C36: a challenge starts at most one game, and only through an accept by its target
\* that found it pending: a challenge that was declined, cancelled, expired, purged by a
\* disconnect or refused has started no game, and an accepted one no second game.
C36_ChallengeStartsOneGame ==
    \A id \in 1..Len(lobby.challenges) :
        LET challenge == lobby.challenges[id]
        IN  /\ challenge.games <= 1
            /\ challenge.games = 1 =>
                   /\ challenge.closed = "accepted"
                   /\ challenge.acceptedBy = challenge.targetId
            /\ challenge.acceptedBy \in {NoPlayer, challenge.targetId}

\* a challenge has started its game and a later accept of it was turned away
C36_Witness ==
    \E id \in 1..Len(lobby.challenges) :
        /\ lobby.challenges[id].games = 1
        /\ lobby.challenges[id].lateAccept

=============================================================================
